---- MODULE Spec2Model ----
(***************************************************************************)
(* Resilient fetch layer of the football-predictor scraper:                *)
(*   - CircuitBreaker          (utils/error_handling/circuit_breaker.py)   *)
(*   - TokenBucketRateLimiter  (utils/rate_limiter.py)                     *)
(*   - SlidingWindowRateLimiter(utils/rate_limiter.py)                     *)
(*   - CheckpointManager       (utils/incremental/checkpoint_manager.py)   *)
(*   - ProxyPool, ProxyInfo    (utils/proxy.py)                            *)
(*   - retry_with_strategy and the retry strategies                        *)
(*                             (utils/error_handling/retry_strategy.py)    *)
(*   - ErrorClassifier         (utils/error_handling/error_classifier.py)  *)
(*   - AdaptiveRateLimiter, DomainRateLimiter (utils/rate_limiter.py)      *)
(*   - ErrorTracker            (utils/error_handling/error_classifier.py)  *)
(*   - MultiLevelRateLimiter   (utils/rate_limiter.py)                     *)
(* Time is a discrete clock `now` (time.time() / datetime.now()), which    *)
(* starts at 1: the epoch clock is positive.  asyncio coroutines run       *)
(* atomically between two awaits, so every action is the code between two  *)
(* suspension points.                                                      *)
(***************************************************************************)
EXTENDS Integers, Sequences, FiniteSets, TLC

VARIABLES
    now,                \* the clock
    \* ---- CircuitBreaker ----
    failure_threshold,  \* CircuitBreaker.failure_threshold
    success_threshold,  \* CircuitBreaker.success_threshold
    timeout,            \* CircuitBreaker.timeout
    state,              \* CircuitBreaker.state
    stats,              \* CircuitBreaker.stats (CircuitBreakerStats)
    opened_at,          \* CircuitBreaker.opened_at
    inflight,           \* calls suspended in `await func(...)`
    cbObs,              \* observation of the run (not program state)
    \* ---- TokenBucketRateLimiter ----
    bucket,             \* rate, capacity, tokens, last_update
    tbPc,               \* per caller of acquire(): "idle" or "sleeping"
    tbReq,              \* per caller: the `tokens` argument of its acquire()
    tbWake,             \* per caller: when its asyncio.sleep(wait_time) ends
    tbGranted,          \* per clock value: tokens granted at that time (observation)
    \* ---- SlidingWindowRateLimiter ----
    window,             \* window_size, max_requests, requests
    swPc,               \* per caller of acquire(): "idle" or "sleeping"
    swWake,             \* per caller: when its asyncio.sleep(wait_time) ends
    swLog,              \* the times at which acquire() returned (observation)
    \* ---- CheckpointManager ----
    files,              \* checkpoint_dir: per job, the file <id>.json
    cpW,                \* per worker: where it is in save_checkpoint
    cpLoaded,           \* what the last load_checkpoint returned (observation)
    cpObs,              \* per job: the saves seen so far (observation)
    \* ---- ProxyPool ----
    proxies,            \* ProxyPool.proxies (list of ProxyInfo)
    rotation_strategy,  \* ProxyPool.rotation_strategy
    current_index,      \* ProxyPool.current_index
    ppObs,              \* the last pool operation and its outcome (observation)
    \* ---- retry_with_strategy ----
    strategy,           \* the RetryStrategy passed in
    func,               \* the operation: how many of its first invocations fail
    context,            \* RetryContext of the running call
    rtPc,               \* where the call is: idle, calling, sleeping, returned, raised
    rtObs,              \* invocations, sleeps and decisions seen (observation)
    \* ---- ErrorClassifier ----
    ecException,        \* the exception handed to classify
    ecClassification,   \* the ErrorClassification it returned
    ecDelay,            \* the last get_retry_delay call for it and its result
    \* ---- AdaptiveRateLimiter ----
    limiter,            \* one AdaptiveRateLimiter with its token_bucket
    arObs,              \* the last call on it and the rate before (observation)
    \* ---- DomainRateLimiter ----
    limiters,           \* DomainRateLimiter.limiters: domain -> AdaptiveRateLimiter
    drWake,             \* per domain: when the asyncio.sleep of its acquire() ends
    drObs,              \* instances created, last call and its result (observation)
    \* ---- ErrorTracker ----
    tracker,            \* window_size and errors of one ErrorTracker
    etObs,              \* errors added since reset, last call and result (observation)
    \* ---- MultiLevelRateLimiter ----
    levels,             \* second_limiter, minute_limiter, hour_limiter
    mlPc,               \* per caller of acquire(): 0 idle, or the limiter it sleeps in
    mlWake,             \* per caller: when its asyncio.sleep ends
    mlObs               \* per caller: limiters passed, sleeps (observation)

cbVars == <<failure_threshold, success_threshold, timeout, state, stats,
            opened_at, inflight, cbObs>>

tbVars == <<bucket, tbPc, tbReq, tbWake, tbGranted>>

swVars == <<window, swPc, swWake, swLog>>

cpVars == <<files, cpW, cpLoaded, cpObs>>

ppVars == <<proxies, rotation_strategy, current_index, ppObs>>

rtVars == <<strategy, func, context, rtPc, rtObs>>

ecVars == <<ecException, ecClassification, ecDelay>>

arVars == <<limiter, arObs>>

drVars == <<limiters, drWake, drObs>>

etVars == <<tracker, etObs>>

mlVars == <<levels, mlPc, mlWake, mlObs>>

vars == <<now, cbVars, tbVars, swVars, cpVars, ppVars, rtVars, ecVars, arVars, drVars,
          etVars, mlVars>>

\* ------------------------------------------------------------------------
\* Bounds of the model
\* ------------------------------------------------------------------------
MaxThreshold == 2   \* failure_threshold, success_threshold range over 1..MaxThreshold
MaxTimeout == 2     \* timeout ranges over 1..MaxTimeout
MaxCalls == 4       \* call() is entered at most this many times
MaxTimeCB == 4      \* the breaker's clock stops here
MaxRate == 2        \* the bucket's rate ranges over 1..MaxRate tokens per tick
MaxCapacity == 2    \* the bucket's capacity ranges over 1..MaxCapacity
MaxTimeTB == 4      \* the bucket's clock stops here
MaxWindow == 3      \* window_size ranges over 1..MaxWindow
MaxRequests == 2    \* max_requests ranges over 1..MaxRequests
MaxTimeSW == 6      \* the window limiter's clock stops here
MaxTimeCP == 3      \* the checkpoint store's clock stops here
ChunkSize == 4
MaxProxyRequests == 4
MaxTimePP == 121
TickSecondsPP == 60
MaxTimePC == 361
MaxAttempts == 4
MaxBaseDelay == 2
MaxMultiplier == 2
MaxDelayRT == 5
MaxWaitAttempt == 7
MaxWindowET == 7
MaxRecorded == 9
MaxCallsML == 2
MaxTicksML == 3
MaxPerMinute == 2
MaxPerHour == 2
MaxPoolAttempts == 13   \* requests reported on the proxies a rotator holds
MaxProxySuccesses == 1  \* successes reported on one of them
MaxAdjustments == 3  \* set_rate runs at most this many times on one limiter
MaxDomainCalls == 4  \* calls made on the domain registry
MaxTimeDR == 11      \* the domain registry's clock stops at or after this
TickSecondsDR == 5   \* seconds between two observations of that clock

\* The coroutines that call acquire() on one limiter
Callers == {"a", "b"}

\* The scraper names checkpoints are kept for, and the workers that use
\* the checkpoint directory
Jobs == {"j1", "j2"}
Workers == {"w1", "w2"}

\* Python's None, for the Optional[float] and Optional[datetime] fields
None == -1

CLOSED == "closed"
OPEN == "open"
HALF_OPEN == "half_open"

\* ------------------------------------------------------------------------
\* CircuitBreaker
\* ------------------------------------------------------------------------
CircuitBreakerStats ==
    [total_requests |-> 0, successful_requests |-> 0, failed_requests |-> 0,
     rejected_requests |-> 0, last_failure_time |-> None,
     last_success_time |-> None, consecutive_failures |-> 0,
     consecutive_successes |-> 0]

\* What the run has shown so far.  lastOp: the last step taken.  invoked:
\* how many times the guarded operation was invoked.  streak: consecutive
\* recorded failures since the last recorded success, close or reset.
\* probes: calls in flight that were admitted in the current HALF_OPEN
\* period.  probeStreak: consecutive successes recorded in the current
\* HALF_OPEN period by calls admitted in it.  raised: what the last call()
\* step raised ("" when it was admitted or returned).  entered: how many
\* times call() was entered.  prev: the breaker's state before the last step.
CbObsInit ==
    [lastOp |-> "init", prev |-> CLOSED, invoked |-> 0, streak |-> 0,
     probes |-> 0, probeStreak |-> 0, raised |-> "", entered |-> 0]

\* CircuitBreaker.__init__, its arguments drawn from the given sets
NewCB(fts, sts, tos) ==
    /\ failure_threshold \in fts
    /\ success_threshold \in sts
    /\ timeout \in tos
    /\ state = CLOSED
    /\ stats = CircuitBreakerStats
    /\ opened_at = None
    /\ inflight = 0
    /\ cbObs = CbObsInit

\* can_attempt with the elapsed time taken from the epoch, not from opened_at
can_attempt_no_elapsed ==
    CASE state = CLOSED -> TRUE
      [] state = OPEN -> /\ opened_at # None
                         /\ opened_at # 0
                         /\ now >= timeout
      [] state = HALF_OPEN -> TRUE
      [] OTHER -> FALSE

\* can_attempt with a strict comparison against the timeout
can_attempt_strict ==
    CASE state = CLOSED -> TRUE
      [] state = OPEN -> /\ opened_at # None
                         /\ opened_at # 0
                         /\ (now - opened_at) > timeout
      [] state = HALF_OPEN -> TRUE
      [] OTHER -> FALSE

\* _can_attempt: the value it returns
can_attempt ==
    CASE state = CLOSED -> TRUE
      [] state = OPEN -> /\ opened_at # None
                         /\ opened_at # 0
                         /\ (now - opened_at) >= timeout
      [] state = HALF_OPEN -> TRUE
      [] OTHER -> FALSE

\* _can_attempt: the state it leaves (OPEN becomes HALF_OPEN once the timeout passed)
can_attempt_state ==
    IF state = OPEN /\ can_attempt THEN HALF_OPEN ELSE state

\* call() whose rejection also counts as a failed request
call_rejection_counts ==
    /\ cbObs.entered < MaxCalls
    /\ IF ~can_attempt
       THEN /\ stats' = [stats EXCEPT !.rejected_requests = @ + 1,
                                     !.failed_requests = @ + 1,
                                     !.consecutive_successes = 0]
            /\ UNCHANGED <<state, opened_at, inflight>>
            /\ cbObs' = [cbObs EXCEPT !.lastOp = "rejected", !.prev = state,
                                      !.raised = "CircuitBreakerError",
                                      !.entered = @ + 1]
       ELSE /\ state' = can_attempt_state
            /\ stats' = [stats EXCEPT !.total_requests = @ + 1]
            /\ inflight' = inflight + 1
            /\ opened_at' = opened_at
            /\ cbObs' = [cbObs EXCEPT
                  !.lastOp = "admitted", !.prev = state, !.raised = "",
                  !.entered = @ + 1,
                  !.invoked = @ + 1,
                  !.probes = IF can_attempt_state = HALF_OPEN THEN @ + 1 ELSE 0,
                  !.probeStreak = IF state = OPEN THEN 0 ELSE @]
    /\ UNCHANGED <<now, failure_threshold, success_threshold, timeout,
                   tbVars, swVars, cpVars, ppVars, rtVars, ecVars, arVars, drVars, etVars, mlVars>>

\* call(): from its entry to `await func(...)`, or to the CircuitBreakerError
call ==
    /\ cbObs.entered < MaxCalls
    /\ IF ~can_attempt
       THEN /\ stats' = [stats EXCEPT !.rejected_requests = @ + 1]
            /\ UNCHANGED <<state, opened_at, inflight>>
            /\ cbObs' = [cbObs EXCEPT !.lastOp = "rejected", !.prev = state,
                                      !.raised = "CircuitBreakerError",
                                      !.entered = @ + 1]
       ELSE /\ state' = can_attempt_state
            /\ stats' = [stats EXCEPT !.total_requests = @ + 1]
            /\ inflight' = inflight + 1
            /\ opened_at' = opened_at
            /\ cbObs' = [cbObs EXCEPT
                  !.lastOp = "admitted", !.prev = state, !.raised = "",
                  !.entered = @ + 1,
                  !.invoked = @ + 1,
                  !.probes = IF can_attempt_state = HALF_OPEN THEN @ + 1 ELSE 0,
                  !.probeStreak = IF state = OPEN THEN 0 ELSE @]
    /\ UNCHANGED <<now, failure_threshold, success_threshold, timeout,
                   tbVars, swVars, cpVars, ppVars, rtVars, ecVars, arVars, drVars, etVars, mlVars>>

\* _close
close(st) ==
    /\ state' = CLOSED
    /\ opened_at' = None
    /\ stats' = [st EXCEPT !.consecutive_failures = 0,
                           !.consecutive_successes = 0]

\* _open
open ==
    /\ state' = OPEN
    /\ opened_at' = now

\* _on_success
on_success ==
    LET st == [stats EXCEPT !.successful_requests = @ + 1,
                            !.consecutive_successes = @ + 1,
                            !.consecutive_failures = 0,
                            !.last_success_time = now]
    IN IF state = HALF_OPEN /\ st.consecutive_successes >= success_threshold
       THEN close(st)
       ELSE /\ stats' = st
            /\ UNCHANGED <<state, opened_at>>

\* on_failure opening only above the threshold
on_failure_above ==
    /\ stats' = [stats EXCEPT !.failed_requests = @ + 1,
                              !.consecutive_failures = @ + 1,
                              !.consecutive_successes = 0,
                              !.last_failure_time = now]
    /\ IF state = CLOSED
       THEN IF stats'.consecutive_failures > failure_threshold
            THEN open
            ELSE UNCHANGED <<state, opened_at>>
       ELSE IF state = HALF_OPEN
            THEN open
            ELSE UNCHANGED <<state, opened_at>>

\* on_failure that reopens from HALF_OPEN without restarting the clock
on_failure_keeps_clock ==
    /\ stats' = [stats EXCEPT !.failed_requests = @ + 1,
                              !.consecutive_failures = @ + 1,
                              !.consecutive_successes = 0,
                              !.last_failure_time = now]
    /\ IF state = CLOSED
       THEN IF stats'.consecutive_failures >= failure_threshold
            THEN open
            ELSE UNCHANGED <<state, opened_at>>
       ELSE IF state = HALF_OPEN
            THEN state' = OPEN /\ opened_at' = opened_at
            ELSE UNCHANGED <<state, opened_at>>

\* _on_failure
on_failure ==
    /\ stats' = [stats EXCEPT !.failed_requests = @ + 1,
                              !.consecutive_failures = @ + 1,
                              !.consecutive_successes = 0,
                              !.last_failure_time = now]
    /\ IF state = CLOSED
       THEN IF stats'.consecutive_failures >= failure_threshold
            THEN open
            ELSE UNCHANGED <<state, opened_at>>
       ELSE IF state = HALF_OPEN
            THEN open
            ELSE UNCHANGED <<state, opened_at>>

\* call(): func returned; isProbe tells whether the call that finishes was
\* admitted in the current HALF_OPEN period
call_returns ==
    /\ inflight > 0
    /\ \E isProbe \in BOOLEAN :
          /\ isProbe => cbObs.probes > 0
          /\ ~isProbe => inflight > cbObs.probes
          /\ on_success
          /\ cbObs' = [cbObs EXCEPT
                !.lastOp = "success", !.prev = state, !.raised = "",
                !.streak = 0,
                !.probes = IF state' # HALF_OPEN THEN 0
                           ELSE IF isProbe THEN @ - 1 ELSE @,
                !.probeStreak = IF state = HALF_OPEN /\ isProbe THEN @ + 1 ELSE @]
    /\ inflight' = inflight - 1
    /\ UNCHANGED <<now, failure_threshold, success_threshold, timeout,
                   tbVars, swVars, cpVars, ppVars, rtVars, ecVars, arVars, drVars, etVars, mlVars>>

\* call(): func raised an exception of type expected_exception
call_raises ==
    /\ inflight > 0
    /\ \E isProbe \in BOOLEAN :
          /\ isProbe => cbObs.probes > 0
          /\ ~isProbe => inflight > cbObs.probes
          /\ on_failure
          /\ cbObs' = [cbObs EXCEPT
                !.lastOp = "failure", !.prev = state,
                !.raised = "expected_exception", !.streak = @ + 1,
                !.probes = IF state' # HALF_OPEN THEN 0
                           ELSE IF isProbe THEN @ - 1 ELSE @,
                !.probeStreak = 0]
    /\ inflight' = inflight - 1
    /\ UNCHANGED <<now, failure_threshold, success_threshold, timeout,
                   tbVars, swVars, cpVars, ppVars, rtVars, ecVars, arVars, drVars, etVars, mlVars>>

\* call(): func raised outside expected_exception, or the task was
\* cancelled (CancelledError is a BaseException): neither handler runs
call_escapes ==
    /\ inflight > 0
    /\ \E isProbe \in BOOLEAN :
          /\ isProbe => cbObs.probes > 0
          /\ ~isProbe => inflight > cbObs.probes
          /\ cbObs' = [cbObs EXCEPT
                !.lastOp = "escaped", !.prev = state, !.raised = "other",
                !.probes = IF isProbe THEN @ - 1 ELSE @]
    /\ inflight' = inflight - 1
    /\ UNCHANGED <<now, failure_threshold, success_threshold, timeout,
                   state, stats, opened_at, tbVars, swVars, cpVars, ppVars, rtVars, ecVars, arVars, drVars, etVars, mlVars>>

\* reset that keeps the statistics
reset_keeps_stats ==
    /\ state' = CLOSED
    /\ opened_at' = None
    /\ stats' = stats
    /\ cbObs' = [cbObs EXCEPT !.lastOp = "reset", !.prev = state,
                              !.raised = "", !.streak = 0,
                              !.probes = 0, !.probeStreak = 0]
    /\ UNCHANGED <<now, failure_threshold, success_threshold, timeout, inflight,
                   tbVars, swVars, cpVars, ppVars, rtVars, ecVars, arVars, drVars, etVars, mlVars>>

\* reset
reset ==
    /\ state' = CLOSED
    /\ opened_at' = None
    /\ stats' = CircuitBreakerStats
    /\ cbObs' = [cbObs EXCEPT !.lastOp = "reset", !.prev = state,
                              !.raised = "", !.streak = 0,
                              !.probes = 0, !.probeStreak = 0]
    /\ UNCHANGED <<now, failure_threshold, success_threshold, timeout, inflight,
                   tbVars, swVars, cpVars, ppVars, rtVars, ecVars, arVars, drVars, etVars, mlVars>>

\* time passes
TickCB ==
    /\ now < MaxTimeCB
    /\ now' = now + 1
    /\ cbObs' = [cbObs EXCEPT !.lastOp = "tick", !.prev = state]
    /\ UNCHANGED <<failure_threshold, success_threshold, timeout, state,
                   stats, opened_at, inflight, tbVars, swVars, cpVars, ppVars, rtVars, ecVars, arVars, drVars, etVars, mlVars>>

\* ------------------------------------------------------------------------
\* TokenBucketRateLimiter
\* ------------------------------------------------------------------------
Min(x, y) == IF x <= y THEN x ELSE y

\* The first clock value at or after x / y seconds from now (y > 0):
\* asyncio.sleep(x / y) ends no earlier
CeilDiv(x, y) == (x + y - 1) \div y

\* TokenBucketRateLimiter.__init__, its arguments drawn from the given sets
NewTB(rates, capacities) ==
    /\ \E r \in rates, c \in capacities :
          bucket = [rate |-> r, capacity |-> c, tokens |-> c, last_update |-> 1]
    /\ tbPc = [c \in Callers |-> "idle"]
    /\ tbReq = [c \in Callers |-> 0]
    /\ tbWake = [c \in Callers |-> 0]
    /\ tbGranted = [t \in 1..MaxTimeTB |-> 0]

\* _refill
refill(b) ==
    [b EXCEPT !.tokens = Min(b.capacity, b.tokens + (now - b.last_update) * b.rate),
              !.last_update = now]

\* acquire(tokens = n): from its entry to `return True` or to asyncio.sleep
acquire(c, n) ==
    /\ tbPc[c] = "idle"
    /\ LET b == refill(bucket)
       IN IF b.tokens >= n
          THEN /\ bucket' = [b EXCEPT !.tokens = @ - n]
               /\ tbGranted' = [tbGranted EXCEPT ![now] = @ + n]
               /\ UNCHANGED <<tbPc, tbReq, tbWake>>
          ELSE /\ bucket' = b
               /\ tbPc' = [tbPc EXCEPT ![c] = "sleeping"]
               /\ tbReq' = [tbReq EXCEPT ![c] = n]
               /\ tbWake' = [tbWake EXCEPT ![c] = now + CeilDiv(n - b.tokens, b.rate)]
               /\ UNCHANGED tbGranted
    /\ UNCHANGED <<now, cbVars, swVars, cpVars, ppVars, rtVars, ecVars, arVars, drVars, etVars, mlVars>>

\* acquire(): from the end of asyncio.sleep(wait_time) to `return True`
acquire_wakes(c) ==
    /\ tbPc[c] = "sleeping"
    /\ now >= tbWake[c]
    /\ bucket' = [refill(bucket) EXCEPT !.tokens = @ - tbReq[c]]
    /\ tbGranted' = [tbGranted EXCEPT ![now] = @ + tbReq[c]]
    /\ tbPc' = [tbPc EXCEPT ![c] = "idle"]
    /\ tbReq' = [tbReq EXCEPT ![c] = 0]
    /\ tbWake' = [tbWake EXCEPT ![c] = 0]
    /\ UNCHANGED <<now, cbVars, swVars, cpVars, ppVars, rtVars, ecVars, arVars, drVars, etVars, mlVars>>

\* time passes
TickTB ==
    /\ now < MaxTimeTB
    /\ now' = now + 1
    /\ UNCHANGED <<cbVars, tbVars, swVars, cpVars, ppVars, rtVars, ecVars, arVars, drVars, etVars, mlVars>>

\* Concurrent callers of one token bucket
NextTB ==
    \/ \E c \in Callers : \E n \in 1..bucket.capacity : acquire(c, n)
    \/ \E c \in Callers : acquire_wakes(c)
    \/ TickTB

\* ------------------------------------------------------------------------
\* SlidingWindowRateLimiter
\* ------------------------------------------------------------------------
\* SlidingWindowRateLimiter.__init__, its arguments drawn from the given sets
NewSW(sizes, limits) ==
    /\ \E w \in sizes, n \in limits :
          window = [window_size |-> w, max_requests |-> n, requests |-> <<>>]
    /\ swPc = [c \in Callers |-> "idle"]
    /\ swWake = [c \in Callers |-> 0]
    /\ swLog = <<>>

\* acquire(): `while self.requests and self.requests[0] < now - window_size: popleft()`
RECURSIVE prune(_, _)
prune(q, cutoff) ==
    IF q # <<>> /\ Head(q) < cutoff THEN prune(Tail(q), cutoff) ELSE q

\* acquire(): from its entry to `return True` or to asyncio.sleep
sw_acquire(c) ==
    /\ swPc[c] = "idle"
    /\ LET q == prune(window.requests, now - window.window_size)
       IN IF Len(q) < window.max_requests
          THEN /\ window' = [window EXCEPT !.requests = Append(q, now)]
               /\ swLog' = Append(swLog, now)
               /\ UNCHANGED <<swPc, swWake>>
          ELSE /\ window' = [window EXCEPT !.requests = q]
               /\ swPc' = [swPc EXCEPT ![c] = "sleeping"]
               /\ swWake' = [swWake EXCEPT ![c] = Head(q) + window.window_size]
               /\ UNCHANGED swLog
    /\ UNCHANGED <<now, cbVars, tbVars, cpVars, ppVars, rtVars, ecVars, arVars, drVars, etVars, mlVars>>

\* sw_acquire_wakes resuming one clock value before the sleep ends
sw_acquire_wakes_early(c) ==
    /\ swPc[c] = "sleeping"
    /\ now >= swWake[c] - 1
    /\ window.requests # <<>>
    /\ window' = [window EXCEPT !.requests = Append(Tail(@), now)]
    /\ swLog' = Append(swLog, now)
    /\ swPc' = [swPc EXCEPT ![c] = "idle"]
    /\ swWake' = [swWake EXCEPT ![c] = 0]
    /\ UNCHANGED <<now, cbVars, tbVars, cpVars, ppVars, rtVars, ecVars, arVars, drVars, etVars, mlVars>>

\* acquire(): from the end of asyncio.sleep(wait_time) to `return True`
sw_acquire_wakes(c) ==
    /\ swPc[c] = "sleeping"
    /\ now >= swWake[c]
    /\ window.requests # <<>>
    /\ window' = [window EXCEPT !.requests = Append(Tail(@), now)]
    /\ swLog' = Append(swLog, now)
    /\ swPc' = [swPc EXCEPT ![c] = "idle"]
    /\ swWake' = [swWake EXCEPT ![c] = 0]
    /\ UNCHANGED <<now, cbVars, tbVars, cpVars, ppVars, rtVars, ecVars, arVars, drVars, etVars, mlVars>>

\* time passes
TickSW ==
    /\ now < MaxTimeSW
    /\ now' = now + 1
    /\ UNCHANGED <<cbVars, tbVars, swVars, cpVars, ppVars, rtVars, ecVars, arVars, drVars, etVars, mlVars>>

\* Concurrent callers of one sliding-window limiter
NextSW ==
    \/ \E c \in Callers : sw_acquire(c)
    \/ \E c \in Callers : sw_acquire_wakes(c)
    \/ TickSW

\* A single caller issuing its requests one after another
NextSWSeq ==
    \/ sw_acquire("a")
    \/ sw_acquire_wakes("a")
    \/ TickSW

\* ------------------------------------------------------------------------
\* MultiLevelRateLimiter
\* ------------------------------------------------------------------------
\* An await of a limiter's acquire() that does not sleep does not suspend
\* the caller, so MultiLevelRateLimiter.acquire runs from its entry, or from
\* the end of a sleep, to the next sleep or to its return in one step.

\* minute_limiter: window_size=60
MinuteWindow == 60
\* hour_limiter: window_size=3600
HourWindow == 3600

\* The limiters in the order acquire() awaits them
Stages == <<"second_limiter", "minute_limiter", "hour_limiter">>

\* MultiLevelRateLimiter.__init__(config) with requests_per_second = 1 and
\* burst_size = 1, requests_per_minute and requests_per_hour drawn from the
\* given sets
NewML(per_minute, per_hour) ==
    /\ \E m \in per_minute, h \in per_hour :
          levels = [second_limiter |->
                        [rate |-> 1, capacity |-> 1, tokens |-> 1, last_update |-> 1],
                    minute_limiter |->
                        [window_size |-> MinuteWindow, max_requests |-> m, requests |-> <<>>],
                    hour_limiter |->
                        [window_size |-> HourWindow, max_requests |-> h, requests |-> <<>>]]
    /\ mlPc = [c \in Callers |-> 0]
    /\ mlWake = [c \in Callers |-> 0]
    /\ mlObs = [calls |-> 0, ticks |-> 0,
                passed |-> [c \in Callers |-> <<>>],
                sleeps |-> [c \in Callers |-> 0],
                returned |-> [c \in Callers |-> 0]]

\* TokenBucketRateLimiter.acquire(): from its entry to `return True` or to
\* asyncio.sleep
tb_enter(b) ==
    LET r == refill(b)
    IN IF r.tokens >= 1
       THEN [limiter |-> [r EXCEPT !.tokens = @ - 1], sleep |-> FALSE, wake |-> 0]
       ELSE [limiter |-> r, sleep |-> TRUE, wake |-> now + CeilDiv(1 - r.tokens, r.rate)]

\* TokenBucketRateLimiter.acquire(): from the end of the sleep to `return True`
tb_resume(b) == [refill(b) EXCEPT !.tokens = @ - 1]

\* SlidingWindowRateLimiter.acquire(): from its entry to `return True` or
\* to asyncio.sleep
sw_enter(w) ==
    LET q == prune(w.requests, now - w.window_size)
    IN IF Len(q) < w.max_requests
       THEN [limiter |-> [w EXCEPT !.requests = Append(q, now)], sleep |-> FALSE, wake |-> 0]
       ELSE [limiter |-> [w EXCEPT !.requests = q], sleep |-> TRUE,
             wake |-> Head(q) + w.window_size]

\* SlidingWindowRateLimiter.acquire(): from the end of the sleep to
\* `return True`
sw_resume(w) == [w EXCEPT !.requests = Append(Tail(@), now)]

\* The acquire() of the k-th limiter, entered and resumed
stage_enter(L, k) == IF k = 1 THEN tb_enter(L[Stages[k]]) ELSE sw_enter(L[Stages[k]])
stage_resume(L, k) == IF k = 1 THEN tb_resume(L[Stages[k]]) ELSE sw_resume(L[Stages[k]])

\* MultiLevelRateLimiter.acquire that does not await the hour limiter
RECURSIVE run_without_hour(_, _, _)
run_without_hour(L, k, passed) ==
    IF k > 2
    THEN [levels |-> L, at |-> 0, wake |-> 0, passed |-> passed]
    ELSE LET r == stage_enter(L, k)
             M == [L EXCEPT ![Stages[k]] = r.limiter]
         IN IF r.sleep
            THEN [levels |-> M, at |-> k, wake |-> r.wake, passed |-> passed]
            ELSE run_without_hour(M, k + 1, Append(passed, Stages[k]))

\* MultiLevelRateLimiter.acquire from the await of the k-th limiter on:
\* the limiters it leaves, the limiter it sleeps in (0: it returned True),
\* and the limiters whose acquire() has returned
RECURSIVE run(_, _, _)
run(L, k, passed) ==
    IF k > Len(Stages)
    THEN [levels |-> L, at |-> 0, wake |-> 0, passed |-> passed]
    ELSE LET r == stage_enter(L, k)
             M == [L EXCEPT ![Stages[k]] = r.limiter]
         IN IF r.sleep
            THEN [levels |-> M, at |-> k, wake |-> r.wake, passed |-> passed]
            ELSE run(M, k + 1, Append(passed, Stages[k]))

\* What a step of caller c that ends as r leaves
Ran(c, r, calls) ==
    /\ levels' = r.levels
    /\ mlPc' = [mlPc EXCEPT ![c] = r.at]
    /\ mlWake' = [mlWake EXCEPT ![c] = r.wake]
    /\ mlObs' = [mlObs EXCEPT !.calls = calls,
                              !.passed[c] = r.passed,
                              !.sleeps[c] = IF r.at # 0 THEN @ + 1 ELSE @,
                              !.returned[c] = IF r.at = 0 THEN now ELSE 0]
    /\ UNCHANGED <<now, cbVars, tbVars, swVars, cpVars, ppVars, rtVars, ecVars, arVars, drVars,
                   etVars>>

\* MultiLevelRateLimiter.acquire(): from its entry to the first sleep or to
\* `return True`
ml_acquire(c) ==
    /\ mlPc[c] = 0
    /\ mlObs.calls < MaxCallsML
    /\ Ran(c, run(levels, 1, <<>>), mlObs.calls + 1)

\* MultiLevelRateLimiter.acquire(): from the end of a sleep to the next
\* sleep or to `return True`
ml_acquire_wakes(c) ==
    /\ mlPc[c] # 0
    /\ now >= mlWake[c]
    /\ LET k == mlPc[c]
           M == [levels EXCEPT ![Stages[k]] = stage_resume(levels, k)]
       IN Ran(c, run(M, k + 1, Append(mlObs.passed[c], Stages[k])), mlObs.calls)

\* time passes: a second, a minute or an hour
TickML ==
    /\ mlObs.ticks < MaxTicksML
    /\ \E d \in {1, MinuteWindow, HourWindow} : now' = now + d
    /\ mlObs' = [mlObs EXCEPT !.ticks = @ + 1]
    /\ UNCHANGED <<cbVars, tbVars, swVars, cpVars, ppVars, rtVars, ecVars, arVars, drVars,
                   etVars, levels, mlPc, mlWake>>

\* Concurrent callers of one multi-level limiter
NextML ==
    \/ \E c \in Callers : ml_acquire(c)
    \/ \E c \in Callers : ml_acquire_wakes(c)
    \/ TickML

\* ------------------------------------------------------------------------
\* Checkpoint and CheckpointManager
\* ------------------------------------------------------------------------

\* A Python value: its type, and its content as a number, a text or items
Py(t, n, s, items) == [t |-> t, n |-> n, s |-> s, items |-> items]
PyNone == Py("NoneType", 0, "", <<>>)
PyInt(n) == Py("int", n, "", <<>>)
PyStr(s) == Py("str", 0, s, <<>>)
PyDatetime(n) == Py("datetime", n, "", <<>>)
PyList(xs) == Py("list", 0, "", xs)
PyTuple(xs) == Py("tuple", 0, "", xs)
PyItem(k, v) == Py("item", 0, "", <<k, v>>)
PyDict(kvs) == Py("dict", 0, "", kvs)
\* An exception raised instead of a value
PyRaise(e) == Py("raise", 0, e, <<>>)

\* A JSON text, by its syntax tree
JNull == Py("null", 0, "", <<>>)
JNumber(n) == Py("number", n, "", <<>>)
JString(s) == Py("string", 0, s, <<>>)
JArray(xs) == Py("array", 0, "", xs)
JMember(k, v) == Py("member", 0, k, <<v>>)
JObject(ms) == Py("object", 0, "", ms)

IsRaise(v) == v.t = "raise"

\* json.dumps of a leaf value (JSONEncoder.default raises TypeError for
\* what is no str, int, None, list, tuple or dict)
json_leaf(v) ==
    CASE v.t = "NoneType" -> JNull
      [] v.t = "int" -> JNumber(v.n)
      [] v.t = "str" -> JString(v.s)
      [] OTHER -> PyRaise("TypeError")

\* json.dumps of a dict key: str kept, int and None turned into text, any
\* other key is a TypeError (skipkeys is False)
json_key(k) ==
    CASE k.t = "str" -> k.s
      [] k.t = "int" -> ToString(k.n)
      [] k.t = "NoneType" -> "null"
      [] OTHER -> "TypeError"

IsKey(k) == k.t \in {"str", "int", "NoneType"}

\* json.dumps of the items of a list or tuple whose items are leaves
json_items(xs) == [i \in DOMAIN xs |-> json_leaf(xs[i])]

\* json.dumps of the items of a dict whose values are leaves
json_members(kvs) ==
    [i \in DOMAIN kvs |-> JMember(json_key(kvs[i].items[1]),
                                  json_leaf(kvs[i].items[2]))]

AnyRaise(js) == \E i \in DOMAIN js : IsRaise(js[i])

\* json.dump: the text written for a value (containers one level deep)
json_dumps(v) ==
    CASE v.t \in {"list", "tuple"} ->
            IF AnyRaise(json_items(v.items)) THEN PyRaise("TypeError")
            ELSE JArray(json_items(v.items))
      [] v.t = "dict" ->
            IF \/ \E i \in DOMAIN v.items : ~IsKey(v.items[i].items[1])
               \/ \E i \in DOMAIN v.items : IsRaise(json_leaf(v.items[i].items[2]))
            THEN PyRaise("TypeError")
            ELSE JObject(json_members(v.items))
      [] OTHER -> json_leaf(v)

\* json.load of a leaf
json_load_leaf(j) ==
    CASE j.t = "null" -> PyNone
      [] j.t = "number" -> PyInt(j.n)
      [] j.t = "string" -> PyStr(j.s)
      [] OTHER -> PyRaise("JSONDecodeError")

\* json.load: the value read from a text (arrays become lists, objects
\* dicts with str keys)
json_loads(j) ==
    CASE j.t = "array" -> PyList([i \in DOMAIN j.items |-> json_load_leaf(j.items[i])])
      [] j.t = "object" ->
            PyDict([i \in DOMAIN j.items |->
                       PyItem(PyStr(j.items[i].s), json_load_leaf(j.items[i].items[1]))])
      [] OTHER -> json_load_leaf(j)

\* datetime.isoformat
isoformat(d) == "T" \o ToString(d.n)

\* datetime.fromisoformat
fromisoformat(v) ==
    IF v.t # "str" THEN PyRaise("TypeError")
    ELSE IF \E n \in 0..MaxTimeCP : isoformat(PyDatetime(n)) = v.s
         THEN PyDatetime(CHOOSE n \in 0..MaxTimeCP : isoformat(PyDatetime(n)) = v.s)
         ELSE PyRaise("ValueError")

\* The fields of the Checkpoint dataclass, in order
Fields == <<"scraper_name", "checkpoint_type", "value", "total_items",
            "scraped_items", "last_updated", "metadata">>

\* Checkpoint(...)
Checkpoint(name, type, value, total, scraped, updated, metadata) ==
    [scraper_name |-> name, checkpoint_type |-> type, value |-> value,
     total_items |-> total, scraped_items |-> scraped, last_updated |-> updated,
     metadata |-> metadata]

\* bool(v) for the values met here
Truthy(v) == ~(v.t = "NoneType" \/ (v.t = "str" /\ v.s = "") \/ (v.t = "int" /\ v.n = 0))

\* Checkpoint.to_dict: the fields as (name, value) items, last_updated as
\* ISO text when set
to_dict(cp) ==
    <<PyItem(PyStr("scraper_name"), cp.scraper_name),
      PyItem(PyStr("checkpoint_type"), cp.checkpoint_type),
      PyItem(PyStr("value"), cp.value),
      PyItem(PyStr("total_items"), cp.total_items),
      PyItem(PyStr("scraped_items"), cp.scraped_items),
      PyItem(PyStr("last_updated"),
             IF Truthy(cp.last_updated) THEN PyStr(isoformat(cp.last_updated))
             ELSE cp.last_updated),
      PyItem(PyStr("metadata"), cp.metadata)>>

\* dict.get(key) on a sequence of items (None when absent)
Get(kvs, key) ==
    IF \E i \in DOMAIN kvs : kvs[i].items[1] = PyStr(key)
    THEN kvs[CHOOSE i \in DOMAIN kvs : kvs[i].items[1] = PyStr(key)].items[2]
    ELSE PyNone

\* from_dict that leaves last_updated as the text found in the file
from_dict_no_parse(kvs) ==
    LET keys == {kvs[i].items[1].s : i \in DOMAIN kvs}
    IN IF \/ ~(keys \subseteq {Fields[i] : i \in DOMAIN Fields})
          \/ ~({"scraper_name", "checkpoint_type", "value"} \subseteq keys)
          \/ Cardinality(keys) # Len(kvs)
       THEN <<>>
       ELSE <<Checkpoint(Get(kvs, "scraper_name"), Get(kvs, "checkpoint_type"),
                         Get(kvs, "value"),
                         IF "total_items" \in keys THEN Get(kvs, "total_items") ELSE PyInt(0),
                         IF "scraped_items" \in keys THEN Get(kvs, "scraped_items") ELSE PyInt(0),
                         Get(kvs, "last_updated"), Get(kvs, "metadata"))>>

\* Checkpoint.from_dict: <<checkpoint>>, or <<>> when it raises (cls(**data)
\* needs the required fields and no unknown ones)
from_dict(kvs) ==
    LET keys == {kvs[i].items[1].s : i \in DOMAIN kvs}
        lu == IF Truthy(Get(kvs, "last_updated"))
              THEN fromisoformat(Get(kvs, "last_updated"))
              ELSE Get(kvs, "last_updated")
    IN IF \/ IsRaise(lu)
          \/ ~(keys \subseteq {Fields[i] : i \in DOMAIN Fields})
          \/ ~({"scraper_name", "checkpoint_type", "value"} \subseteq keys)
          \/ Cardinality(keys) # Len(kvs)
       THEN <<>>
       ELSE <<Checkpoint(Get(kvs, "scraper_name"), Get(kvs, "checkpoint_type"),
                         Get(kvs, "value"),
                         IF "total_items" \in keys THEN Get(kvs, "total_items") ELSE PyInt(0),
                         IF "scraped_items" \in keys THEN Get(kvs, "scraped_items") ELSE PyInt(0),
                         lu, Get(kvs, "metadata"))>>

\* The checkpoints handed to save_checkpoint for a job: progress values
\* that are an int, a list, a tuple, a str and a datetime; metadata that is
\* None, a dict with str keys and a dict with an int key
Samples(j) ==
    {Checkpoint(PyStr(j), PyStr("page"), PyInt(3), PyInt(2), PyInt(1), PyNone, PyNone),
     Checkpoint(PyStr(j), PyStr("offset"), PyList(<<PyInt(1), PyStr("a")>>), PyInt(2),
                PyInt(2), PyNone, PyDict(<<PyItem(PyStr("k"), PyInt(1))>>)),
     Checkpoint(PyStr(j), PyStr("cursor"), PyTuple(<<PyInt(1), PyInt(2)>>), PyInt(2),
                PyInt(1), PyNone, PyNone),
     Checkpoint(PyStr(j), PyStr("page"), PyStr("c"), PyInt(2), PyInt(0), PyNone,
                PyDict(<<PyItem(PyInt(1), PyStr("a"))>>)),
     Checkpoint(PyStr(j), PyStr("date"), PyDatetime(1), PyInt(2), PyInt(1), PyNone, PyNone)}

\* _generate_checkpoint_id that gives every name the same id
generate_checkpoint_id_shared(j) == "6caeba444797a281"

\* _generate_checkpoint_id: hashlib.md5(name.encode()).hexdigest()[:16], for
\* the names of Jobs
generate_checkpoint_id(j) ==
    CASE j = "j1" -> "6caeba444797a281"
      [] j = "j2" -> "843eca7556234d9c"

\* json.dump(checkpoint.to_dict(), f): the member written for field i
Member(cp, i) ==
    LET it == to_dict(cp)[i]
        v == json_dumps(it.items[2])
    IN IF IsRaise(v) THEN v ELSE JMember(json_key(it.items[1]), v)

NumFields == Len(Fields)
NumChunks == (NumFields + ChunkSize - 1) \div ChunkSize

\* The fields that go out in the k-th write
ChunkFields(k) ==
    {i \in 1..NumFields : (k - 1) * ChunkSize < i /\ i <= k * ChunkSize}

\* The first field json.dump cannot encode (0: none)
FirstBad(cp) ==
    IF \E i \in 1..NumFields : IsRaise(Member(cp, i))
    THEN CHOOSE i \in 1..NumFields :
            /\ IsRaise(Member(cp, i))
            /\ \A h \in 1..(i - 1) : ~IsRaise(Member(cp, h))
    ELSE 0

\* The k-th write of json.dump: the members it holds; not ok when json.dump
\* raised in it, and then only the members before the bad one are written
Chunk(cp, k) ==
    LET bad == FirstBad(cp)
        torn == bad \in ChunkFields(k)
        upto == IF torn THEN bad - 1 ELSE Min(k * ChunkSize, NumFields)
    IN [ok |-> ~torn,
        members |-> [i \in 1..(upto - (k - 1) * ChunkSize) |->
                        Member(cp, (k - 1) * ChunkSize + i)]]

\* The writes json.dump makes for a checkpoint, up to the one that raises
Document(cp) ==
    LET bad == FirstBad(cp)
        last == IF bad = 0 THEN NumChunks ELSE (bad + ChunkSize - 1) \div ChunkSize
    IN [k \in 1..last |-> Chunk(cp, k)]

NoFile == [exists |-> FALSE, chunks |-> <<>>]

\* write() of chunk c at offset k of a file
WriteAt(f, k, c) ==
    [f EXCEPT !.chunks =
        [i \in 1..(IF k > Len(f.chunks) THEN k ELSE Len(f.chunks)) |->
            IF i = k THEN c
            ELSE IF i <= Len(f.chunks) THEN f.chunks[i]
            ELSE [ok |-> FALSE, members |-> <<>>]]]

RECURSIVE Concat(_)
Concat(ss) == IF ss = <<>> THEN <<>> ELSE Head(ss) \o Concat(Tail(ss))

\* load_checkpoint: <<checkpoint>>, or <<>> for None (no file, or json.load
\* or from_dict raised)
load_checkpoint(j) ==
    LET f == files[generate_checkpoint_id(j)]
        ms == Concat([k \in DOMAIN f.chunks |-> f.chunks[k].members])
    IN IF ~f.exists THEN <<>>
       ELSE IF Len(f.chunks) # NumChunks \/ \E k \in DOMAIN f.chunks : ~f.chunks[k].ok
            THEN <<>>
            ELSE from_dict([i \in DOMAIN ms |->
                               PyItem(PyStr(ms[i].s), json_loads(ms[i].items[1]))])

Idle == [pc |-> "idle", job |-> "", cp |-> <<>>, doc |-> <<>>, pos |-> 0]

NoSave == [cur |-> "none", prev |-> <<>>, new |-> <<>>, pre |-> 0, restarted |-> FALSE,
           last |-> <<>>]

\* CheckpointManager.__init__ on an empty directory
NewCP ==
    /\ files = [id \in {generate_checkpoint_id(j) : j \in Jobs} |-> NoFile]
    /\ cpW = [w \in Workers |-> Idle]
    /\ cpLoaded = [job |-> "", result |-> <<>>, restarted |-> FALSE]
    /\ cpObs = [j \in Jobs |-> NoSave]

Writers(j) == {w \in Workers : cpW[w].pc = "saving" /\ cpW[w].job = j}

\* save_checkpoint up to the first write: sets last_updated, opens the file
\* for writing (which empties it) and encodes the record
open_and_dump(w, j, cp) ==
    LET saved == [cp EXCEPT !.last_updated = PyDatetime(now)]
    IN /\ files' = [files EXCEPT ![generate_checkpoint_id(j)] =
                       [exists |-> TRUE, chunks |-> <<>>]]
       /\ cpW' = [cpW EXCEPT ![w] = [pc |-> "saving", job |-> j, cp |-> <<saved>>,
                                     doc |-> Document(saved), pos |-> 1]]
       /\ cpObs' = [cpObs EXCEPT ![j] =
             IF Writers(j) # {}
             THEN [@ EXCEPT !.cur = "dirty", !.prev = <<>>, !.new = <<>>]
             ELSE [cur |-> "saving",
                   prev |-> IF @.cur = "saved" THEN @.prev ELSE <<>>,
                   new |-> <<saved>>, pre |-> now, restarted |-> FALSE,
                   last |-> @.last]]
       /\ UNCHANGED <<now, cbVars, tbVars, swVars, cpLoaded, ppVars, rtVars, ecVars, arVars, drVars, etVars, mlVars>>

\* save_checkpoint called by a worker
save_begin(w, j, cp) ==
    /\ cpW[w].pc = "idle"
    /\ open_and_dump(w, j, cp)

\* save_checkpoint: one write of json.dump reaches the file; after the last
\* one the file is closed and the id returned; a TypeError of json.dump
\* closes the file and leaves save_checkpoint
save_write(w) ==
    /\ cpW[w].pc = "saving"
    /\ LET j == cpW[w].job
           c == cpW[w].doc[cpW[w].pos]
           done == cpW[w].pos = Len(cpW[w].doc)
       IN /\ files' = [files EXCEPT ![generate_checkpoint_id(j)] =
                          WriteAt(@, cpW[w].pos, c)]
          /\ cpW' = [cpW EXCEPT ![w] = IF done THEN Idle ELSE [@ EXCEPT !.pos = @ + 1]]
          /\ cpObs' = [cpObs EXCEPT ![j] =
                IF ~done THEN @
                ELSE IF @.cur = "saving" /\ c.ok
                     THEN [@ EXCEPT !.cur = "saved", !.prev = cpObs[j].new, !.new = <<>>,
                                    !.last = cpW[w].cp]
                     ELSE [@ EXCEPT !.cur = "dirty", !.prev = <<>>, !.new = <<>>,
                                    !.last = cpW[w].cp]]
    /\ UNCHANGED <<now, cbVars, tbVars, swVars, cpLoaded, ppVars, rtVars, ecVars, arVars, drVars, etVars, mlVars>>

\* load_checkpoint
load(j) ==
    /\ cpLoaded' = [job |-> j, result |-> load_checkpoint(j),
                    restarted |-> cpObs[j].restarted]
    /\ UNCHANGED <<now, cbVars, tbVars, swVars, files, cpW, cpObs, ppVars, rtVars, ecVars, arVars, drVars, etVars, mlVars>>

\* delete_checkpoint (taken here when no save of the job is under way)
delete_checkpoint(j) ==
    /\ Writers(j) = {}
    /\ files[generate_checkpoint_id(j)].exists
    /\ files' = [files EXCEPT ![generate_checkpoint_id(j)] = NoFile]
    /\ cpObs' = [cpObs EXCEPT ![j] = NoSave]
    /\ UNCHANGED <<now, cbVars, tbVars, swVars, cpW, cpLoaded, ppVars, rtVars, ecVars, arVars, drVars, etVars, mlVars>>

\* update_progress up to the save: loads the job's checkpoint and, when there
\* is one, sets scraped_items and (unless value is None) value on it
update_progress(w, j, scraped_items, value) ==
    /\ cpW[w].pc = "idle"
    /\ load_checkpoint(j) # <<>>
    /\ LET checkpoint == load_checkpoint(j)[1]
           updated == [checkpoint EXCEPT
                          !.scraped_items = scraped_items,
                          !.value = IF value # PyNone THEN value ELSE @]
       IN cpW' = [cpW EXCEPT ![w] = [pc |-> "updating", job |-> j, cp |-> <<updated>>,
                                     doc |-> <<>>, pos |-> 0]]
    /\ UNCHANGED <<now, cbVars, tbVars, swVars, files, cpLoaded, cpObs, ppVars, rtVars, ecVars, arVars, drVars, etVars, mlVars>>

\* update_progress: the save_checkpoint of the updated record
update_progress_save(w) ==
    /\ cpW[w].pc = "updating"
    /\ open_and_dump(w, cpW[w].job, cpW[w].cp[1])

\* The process dies and is started again: what was not yet written is
\* lost, the files stay as they are, and a new CheckpointManager is made on
\* the same directory
crash ==
    /\ cpW' = [w \in Workers |-> Idle]
    /\ cpObs' = [j \in Jobs |->
          [cpObs[j] EXCEPT !.cur = IF @ = "saving" THEN "crashed"
                                   ELSE IF Writers(j) # {} THEN "dirty" ELSE @,
                           !.restarted = TRUE]]
    /\ UNCHANGED <<now, cbVars, tbVars, swVars, files, cpLoaded, ppVars, rtVars, ecVars, arVars, drVars, etVars, mlVars>>

\* time passes
TickCP ==
    /\ now < MaxTimeCP
    /\ now' = now + 1
    /\ UNCHANGED <<cbVars, tbVars, swVars, cpVars, ppVars, rtVars, ecVars, arVars, drVars, etVars, mlVars>>

\* One worker saving, loading and deleting the checkpoint of one job, and
\* dying at any point
NextCP ==
    \/ \E cp \in Samples("j1") : save_begin("w1", "j1", cp)
    \/ save_write("w1")
    \/ load("j1")
    \/ delete_checkpoint("j1")
    \/ crash
    \/ TickCP

\* ------------------------------------------------------------------------
\* ProxyPool
\* ------------------------------------------------------------------------
\* Times are seconds. last_used, last_success and last_failure are written
\* and never read, and are left out. avg_response_time is the exact
\* fraction num/den.

\* record_failure: consecutive failures at which a proxy is marked unhealthy
UnhealthyAfter == 3
\* record_failure(cooldown_seconds = 60)
DefaultCooldown == 60
\* health_check: proxy.record_failure(cooldown_seconds=300)
ProbeCooldown == 300
\* remove_unhealthy keeps a proxy with fewer recorded requests than this
MinAttempts == 10

\* The proxy urls the pool is constructed with, in list order
ProxyUrls == <<"p1", "p2">>

\* response_time arguments of record_success
ResponseTimes == {1, 2}

Strategies == {"round_robin", "random", "performance"}

\* ProxyInfo(url, protocol)
ProxyInfo(url) ==
    [url |-> url,
     total_requests |-> 0,
     successful_requests |-> 0,
     failed_requests |-> 0,
     is_healthy |-> TRUE,
     consecutive_failures |-> 0,
     avg_response_time |-> [num |-> 0, den |-> 1],
     cooldown_until |-> None]

\* What the run has shown so far.  op, arg: the last pool operation and the
\* position of the proxy it was made on (0: none).  result: the position
\* get_proxy returned (0: None), or how many proxies remove_unhealthy
\* removed.  raised: the exception the operation ended with ("": none).
\* rate: the min_success_rate of the last remove_unhealthy.  at: the time of
\* the last get_proxy.  was: the proxy's health before the operation.
\* streak, down: per position, the run of failures seen and whether it
\* reached the mark.
PpObsInit ==
    [op |-> "init", arg |-> 0, result |-> 0, at |-> 0, was |-> TRUE,
     raised |-> "", rate |-> [num |-> 0, den |-> 1],
     streak |-> [i \in DOMAIN ProxyUrls |-> 0],
     down |-> [i \in DOMAIN ProxyUrls |-> FALSE]]

\* ProxyPool.__init__(proxies, rotation_strategy)
NewPP(strategies) ==
    /\ proxies = [i \in DOMAIN ProxyUrls |-> ProxyInfo(ProxyUrls[i])]
    /\ rotation_strategy \in strategies
    /\ current_index = 0
    /\ ppObs = PpObsInit

\* is_available that looks at the health flag alone
is_available_ignores_cooldown(p) == p.is_healthy

\* ProxyInfo.is_available
is_available(p) ==
    IF ~p.is_healthy THEN FALSE
    ELSE IF p.cooldown_until # None /\ now < p.cooldown_until THEN FALSE
    ELSE TRUE

\* key(p) < key(q) for the key success_rate - avg_response_time of
\* get_proxy; success_rate is 0 with no request made. Both sides are brought
\* to the common denominator of the two averages and the two request counts.
performance_less(p, q) ==
    LET D == IF p.avg_response_time.den > q.avg_response_time.den
             THEN p.avg_response_time.den ELSE q.avg_response_time.den
        ap == p.avg_response_time.num * (D \div p.avg_response_time.den)
        aq == q.avg_response_time.num * (D \div q.avg_response_time.den)
        tp == IF p.total_requests = 0 THEN 1 ELSE p.total_requests
        tq == IF q.total_requests = 0 THEN 1 ELSE q.total_requests
    IN (p.successful_requests * tq - q.successful_requests * tp) * D
          < (ap - aq) * tp * tq

\* record_success that also marks the proxy healthy
pi_record_success_heals(p, response_time) ==
    [p EXCEPT !.total_requests = @ + 1,
              !.successful_requests = @ + 1,
              !.consecutive_failures = 0,
              !.is_healthy = TRUE,
              !.avg_response_time =
                  IF @.num = 0 THEN [num |-> response_time, den |-> 1]
                  ELSE [num |-> @.num * 9 + response_time * @.den, den |-> @.den * 10]]

\* record_success that also ends the cooldown
pi_record_success_ends_cooldown(p, response_time) ==
    [p EXCEPT !.total_requests = @ + 1,
              !.successful_requests = @ + 1,
              !.consecutive_failures = 0,
              !.cooldown_until = None,
              !.avg_response_time =
                  IF @.num = 0 THEN [num |-> response_time, den |-> 1]
                  ELSE [num |-> @.num * 9 + response_time * @.den, den |-> @.den * 10]]

\* ProxyInfo.record_success
pi_record_success(p, response_time) ==
    [p EXCEPT !.total_requests = @ + 1,
              !.successful_requests = @ + 1,
              !.consecutive_failures = 0,
              !.avg_response_time =
                  IF @.num = 0 THEN [num |-> response_time, den |-> 1]
                  ELSE [num |-> @.num * 9 + response_time * @.den, den |-> @.den * 10]]

\* record_failure that marks unhealthy one failure late
pi_record_failure_late(p, cooldown_seconds) ==
    [p EXCEPT !.total_requests = @ + 1,
              !.failed_requests = @ + 1,
              !.consecutive_failures = @ + 1,
              !.is_healthy = IF p.consecutive_failures + 1 > UnhealthyAfter
                             THEN FALSE ELSE @,
              !.cooldown_until = now + cooldown_seconds]

\* ProxyInfo.record_failure
pi_record_failure(p, cooldown_seconds) ==
    [p EXCEPT !.total_requests = @ + 1,
              !.failed_requests = @ + 1,
              !.consecutive_failures = @ + 1,
              !.is_healthy = IF p.consecutive_failures + 1 >= UnhealthyAfter
                             THEN FALSE ELSE @,
              !.cooldown_until = now + cooldown_seconds]

\* ProxyInfo.reset_health
pi_reset_health(p) ==
    [p EXCEPT !.is_healthy = TRUE, !.consecutive_failures = 0, !.cooldown_until = None]

\* get_proxy: the positions of the available proxies
available == {i \in DOMAIN proxies : is_available(proxies[i])}

\* get_proxy, round_robin: the loop with k rounds left and the cursor at
\* index.  self.proxies[index] raises IndexError for a cursor past the end
\* of the list; positions in `proxies` are 1-based.
RECURSIVE rr_loop(_, _)
rr_loop(k, index) ==
    IF k = 0
    THEN [result |-> 0, index |-> index, raised |-> ""]
    ELSE IF index >= Len(proxies)
    THEN [result |-> 0, index |-> index, raised |-> "IndexError"]
    ELSE IF is_available(proxies[index + 1])
    THEN [result |-> index + 1, index |-> (index + 1) % Len(proxies), raised |-> ""]
    ELSE rr_loop(k - 1, (index + 1) % Len(proxies))

\* get_proxy, performance: max() returns the first of the best
best ==
    CHOOSE i \in available :
        /\ \A j \in available : ~performance_less(proxies[i], proxies[j])
        /\ \A j \in available : j < i => performance_less(proxies[j], proxies[i])

\* The requests recorded on the first n proxies of the pool
RECURSIVE Recorded(_)
Recorded(n) == IF n = 0 THEN 0 ELSE proxies[n].total_requests + Recorded(n - 1)

\* What one pool operation leaves in the observation
Observe(op, i, result) ==
    [ppObs EXCEPT !.op = op, !.arg = i, !.result = result, !.raised = "",
                  !.at = IF i = 0 THEN now ELSE 0,
                  !.was = IF i = 0 THEN TRUE ELSE proxies[i].is_healthy]

\* ProxyPool.get_proxy; result 0 is None
get_proxy ==
    /\ IF available = {}
       THEN /\ ppObs' = Observe("get_proxy", 0, 0)
            /\ UNCHANGED current_index
       ELSE IF rotation_strategy = "random"
       THEN /\ \E i \in available : ppObs' = Observe("get_proxy", 0, i)
            /\ UNCHANGED current_index
       ELSE IF rotation_strategy = "performance"
       THEN /\ ppObs' = Observe("get_proxy", 0, best)
            /\ UNCHANGED current_index
       ELSE LET r == rr_loop(Len(proxies), current_index)
            IN /\ ppObs' = [Observe("get_proxy", 0, r.result) EXCEPT !.raised = r.raised]
               /\ current_index' = r.index
    /\ UNCHANGED <<now, cbVars, tbVars, swVars, cpVars, proxies, rotation_strategy, rtVars, ecVars, arVars, drVars, etVars, mlVars>>

\* The observed run of failures of proxy i after one more failure
Failed(i) ==
    [ppObs EXCEPT !.streak[i] = @ + 1,
                  !.down[i] = @ \/ ppObs.streak[i] + 1 >= 3]

\* ProxyPool.record_success(proxy, response_time)
record_success(i, response_time) ==
    /\ Recorded(Len(proxies)) < MaxProxyRequests
    /\ proxies' = [proxies EXCEPT ![i] = pi_record_success(@, response_time)]
    /\ ppObs' = [Observe("record_success", i, 0) EXCEPT !.streak[i] = 0]
    /\ UNCHANGED <<now, cbVars, tbVars, swVars, cpVars, rotation_strategy, current_index, rtVars, ecVars, arVars, drVars, etVars, mlVars>>

\* ProxyPool.record_failure(proxy)
record_failure(i) ==
    /\ Recorded(Len(proxies)) < MaxProxyRequests
    /\ proxies' = [proxies EXCEPT ![i] = pi_record_failure(@, DefaultCooldown)]
    /\ ppObs' = [Observe("record_failure", i, 0) EXCEPT
                    !.streak = Failed(i).streak, !.down = Failed(i).down]
    /\ UNCHANGED <<now, cbVars, tbVars, swVars, cpVars, rotation_strategy, current_index, rtVars, ecVars, arVars, drVars, etVars, mlVars>>

\* health_check.check_proxy from the response on: the probe went through
check_proxy_ok(i, response_time) ==
    /\ Recorded(Len(proxies)) < MaxProxyRequests
    /\ proxies' = [proxies EXCEPT ![i] =
          pi_record_success(IF ~@.is_healthy THEN pi_reset_health(@) ELSE @,
                            response_time)]
    /\ ppObs' = [Observe("check_proxy_ok", i, 0) EXCEPT
                    !.streak[i] = 0, !.down[i] = FALSE]
    /\ UNCHANGED <<now, cbVars, tbVars, swVars, cpVars, rotation_strategy, current_index, rtVars, ecVars, arVars, drVars, etVars, mlVars>>

\* health_check.check_proxy: the probe raised
check_proxy_fails(i) ==
    /\ Recorded(Len(proxies)) < MaxProxyRequests
    /\ proxies' = [proxies EXCEPT ![i] = pi_record_failure(@, ProbeCooldown)]
    /\ ppObs' = [Observe("check_proxy_fails", i, 0) EXCEPT
                    !.streak = Failed(i).streak, !.down = Failed(i).down]
    /\ UNCHANGED <<now, cbVars, tbVars, swVars, cpVars, rotation_strategy, current_index, rtVars, ecVars, arVars, drVars, etVars, mlVars>>

\* ProxyInfo.reset_health called on a proxy of the pool
reset_health(i) ==
    /\ proxies[i] # pi_reset_health(proxies[i])
    /\ proxies' = [proxies EXCEPT ![i] = pi_reset_health(@)]
    /\ ppObs' = [Observe("reset_health", i, 0) EXCEPT
                    !.streak[i] = 0, !.down[i] = FALSE]
    /\ UNCHANGED <<now, cbVars, tbVars, swVars, cpVars, rotation_strategy, current_index, rtVars, ecVars, arVars, drVars, etVars, mlVars>>

\* time passes
TickPP ==
    /\ now + TickSecondsPP <= MaxTimePP
    /\ now' = now + TickSecondsPP
    /\ UNCHANGED <<cbVars, tbVars, swVars, cpVars, ppVars, rtVars, ecVars, arVars, drVars, etVars, mlVars>>

\* ProxyInfo.success_rate >= min_success_rate, on exact fractions
success_rate_at_least(p, min_success_rate) ==
    IF p.total_requests = 0
    THEN min_success_rate.num <= 0
    ELSE p.successful_requests * min_success_rate.den
            >= min_success_rate.num * p.total_requests

\* remove_unhealthy's filter without the protection of new proxies
kept_by_rate_alone(p, min_success_rate) ==
    success_rate_at_least(p, min_success_rate)

\* remove_unhealthy: the filter of its list comprehension
kept(p, min_success_rate) ==
    success_rate_at_least(p, min_success_rate) \/ p.total_requests < MinAttempts

\* The positions of the proxies with the given url
WithUrl(url) == {i \in DOMAIN proxies : proxies[i].url = url}

\* ProxyPool.add_proxy(proxy_url), for a url the pool does not hold
add_proxy(url) ==
    /\ WithUrl(url) = {}
    /\ proxies' = Append(proxies, ProxyInfo(url))
    /\ ppObs' = [ppObs EXCEPT !.op = "add_proxy", !.arg = Len(proxies) + 1,
                              !.result = 0, !.raised = ""]
    /\ UNCHANGED <<now, cbVars, tbVars, swVars, cpVars, rotation_strategy, current_index, rtVars, ecVars, arVars, drVars, etVars, mlVars>>

\* ProxyRotator.report_success(proxy_url, response_time): record_success on
\* the first proxy with that url
report_success(url, response_time) ==
    /\ WithUrl(url) # {}
    /\ LET i == CHOOSE j \in WithUrl(url) : \A h \in WithUrl(url) : j <= h
       IN /\ Recorded(Len(proxies)) < MaxPoolAttempts
          /\ proxies[i].successful_requests < MaxProxySuccesses
          /\ proxies' = [proxies EXCEPT ![i] = pi_record_success(@, response_time)]
          /\ ppObs' = [ppObs EXCEPT !.op = "record_success", !.arg = i,
                                    !.result = 0, !.raised = ""]
    /\ UNCHANGED <<now, cbVars, tbVars, swVars, cpVars, rotation_strategy, current_index, rtVars, ecVars, arVars, drVars, etVars, mlVars>>

\* ProxyRotator.report_failure(proxy_url): record_failure on the first
\* proxy with that url
report_failure(url) ==
    /\ WithUrl(url) # {}
    /\ LET i == CHOOSE j \in WithUrl(url) : \A h \in WithUrl(url) : j <= h
       IN /\ Recorded(Len(proxies)) < MaxPoolAttempts
          /\ proxies' = [proxies EXCEPT ![i] = pi_record_failure(@, DefaultCooldown)]
          /\ ppObs' = [ppObs EXCEPT !.op = "record_failure", !.arg = i,
                                    !.result = 0, !.raised = ""]
    /\ UNCHANGED <<now, cbVars, tbVars, swVars, cpVars, rotation_strategy, current_index, rtVars, ecVars, arVars, drVars, etVars, mlVars>>

\* ProxyPool.remove_unhealthy(min_success_rate)
remove_unhealthy(min_success_rate) ==
    /\ proxies' = SelectSeq(proxies, LAMBDA p : kept(p, min_success_rate))
    /\ ppObs' = [ppObs EXCEPT !.op = "remove_unhealthy", !.arg = 0,
                              !.result = Len(proxies) - Len(proxies'),
                              !.raised = "", !.rate = min_success_rate]
    /\ UNCHANGED <<now, cbVars, tbVars, swVars, cpVars, rotation_strategy, current_index, rtVars, ecVars, arVars, drVars, etVars, mlVars>>

\* The min_success_rate arguments: the default 0.3, and 0.1
MinSuccessRates == {[num |-> 3, den |-> 10], [num |-> 1, den |-> 10]}

\* A rotator's pool with its maintenance: proxies are used and reported on,
\* pruned and added again
NextPR ==
    \/ get_proxy
    \/ \E i \in DOMAIN ProxyUrls : report_success(ProxyUrls[i], 1)
    \/ \E i \in DOMAIN ProxyUrls : report_failure(ProxyUrls[i])
    \/ \E i \in DOMAIN ProxyUrls : add_proxy(ProxyUrls[i])
    \/ \E m \in MinSuccessRates : remove_unhealthy(m)

\* Users of the pool and the health check, in any order
NextPP ==
    \/ get_proxy
    \/ \E i \in DOMAIN proxies, rt \in ResponseTimes : record_success(i, rt)
    \/ \E i \in DOMAIN proxies : record_failure(i)
    \/ \E i \in DOMAIN proxies, rt \in ResponseTimes : check_proxy_ok(i, rt)
    \/ \E i \in DOMAIN proxies : check_proxy_fails(i)
    \/ \E i \in DOMAIN proxies : reset_health(i)
    \/ TickPP

\* time passes, long enough for the cooldown of a failed probe to elapse
TickPC ==
    /\ now + TickSecondsPP <= MaxTimePC
    /\ now' = now + TickSecondsPP
    /\ UNCHANGED <<cbVars, tbVars, swVars, cpVars, ppVars, rtVars, ecVars, arVars, drVars, etVars, mlVars>>

\* Requests through the first proxy of the pool and health probes of it,
\* over the time a probe's cooldown lasts
NextPC ==
    \/ get_proxy
    \/ record_success(1, 1)
    \/ record_failure(1)
    \/ check_proxy_ok(1, 1)
    \/ check_proxy_fails(1)
    \/ reset_health(1)
    \/ TickPC

\* ------------------------------------------------------------------------
\* Exceptions
\* ------------------------------------------------------------------------
\* An exception is its class, whether it has a `response` attribute, and for
\* those that have one the response's status_code and headers. A header is
\* absent or holds a text, which float() reads as a number or rejects.

NoHeader == [present |-> FALSE, numeric |-> FALSE, n |-> 0]
NumHeader(n) == [present |-> TRUE, numeric |-> TRUE, n |-> n]
TextHeader == [present |-> TRUE, numeric |-> FALSE, n |-> 0]

\* An exception without a response
Exc(type) ==
    [type |-> type, has_response |-> FALSE, status_code |-> None,
     retry_after |-> NoHeader, cf_ray |-> FALSE]

\* An HTTP error: exception.response with status_code, the Retry-After
\* header, and the Cloudflare marks (a cf-ray header or the word in the text)
HttpError(status_code, retry_after, cf_ray) ==
    [type |-> "HTTPStatusError", has_response |-> TRUE, status_code |-> status_code,
     retry_after |-> retry_after, cf_ray |-> cf_ray]

\* context.last_exception = None
NoException == Exc("None")

\* The exceptions the operations raise
Exceptions ==
    {Exc(t) : t \in {"ConnectionError", "TimeoutError", "ValueError", "KeyError",
                     "AttributeError", "RuntimeError"}}
    \cup {HttpError(c, NoHeader, FALSE) :
             c \in {None, 0, 302, 400, 401, 403, 404, 418, 429, 500, 502, 503, 600}}
    \cup {HttpError(403, NoHeader, TRUE)}
    \cup {HttpError(c, h, FALSE) :
             c \in {429, 503}, h \in {NumHeader(0), NumHeader(5), TextHeader}}

\* ------------------------------------------------------------------------
\* ErrorClassifier
\* ------------------------------------------------------------------------

\* ErrorClassification(error_type, severity, should_retry, retry_after,
\* requires_alert); the message is left out
ErrorClassification(error_type, severity, should_retry, retry_after, requires_alert) ==
    [error_type |-> error_type, severity |-> severity, should_retry |-> should_retry,
     retry_after |-> retry_after, requires_alert |-> requires_alert]

NoClassification == ErrorClassification("none", "none", FALSE, None, FALSE)

\* The 429 branch of _classify_http_error: the retry_after it reports
rate_limit_delay(headers) ==
    LET retry_after == IF ~headers.present THEN None
                       ELSE IF headers.numeric THEN headers.n
                       ELSE 60
    IN IF retry_after = None \/ retry_after = 0 THEN 60 ELSE retry_after

\* ErrorClassifier._classify_http_error
classify_http_error(exception) ==
    LET status == exception.status_code
    IN IF status = None \/ status = 0
       THEN ErrorClassification("unknown", "medium", TRUE, None, FALSE)
       ELSE IF status = 401
       THEN ErrorClassification("authentication", "high", FALSE, None, TRUE)
       ELSE IF status = 403
       THEN IF exception.cf_ray
            THEN ErrorClassification("cloudflare", "high", TRUE, 60, FALSE)
            ELSE ErrorClassification("authorization", "medium", FALSE, None, FALSE)
       ELSE IF status = 404
       THEN ErrorClassification("not_found", "low", FALSE, None, FALSE)
       ELSE IF status = 429
       THEN ErrorClassification("rate_limit", "medium", TRUE,
                                rate_limit_delay(exception.retry_after), FALSE)
       ELSE IF 500 <= status /\ status < 600
       THEN ErrorClassification("server_error",
                                IF status = 503 THEN "high" ELSE "medium",
                                TRUE,
                                IF status = 503 THEN 30 ELSE None,
                                status = 503)
       ELSE IF 400 <= status /\ status < 500
       THEN ErrorClassification("client_error", "low", FALSE, None, FALSE)
       ELSE ErrorClassification("unknown", "medium", TRUE, None, FALSE)

\* ErrorClassifier.classify
classify(exception) ==
    IF exception.type = "ConnectionError"
    THEN ErrorClassification("network", "medium", TRUE, None, FALSE)
    ELSE IF exception.type = "TimeoutError"
    THEN ErrorClassification("timeout", "medium", TRUE, None, FALSE)
    ELSE IF exception.has_response
    THEN classify_http_error(exception)
    ELSE IF exception.type \in {"ValueError", "KeyError", "AttributeError"}
    THEN ErrorClassification("parsing", "low", FALSE, None, FALSE)
    ELSE ErrorClassification("unknown", "high", FALSE, None, TRUE)

RECURSIVE Pow(_, _)
Pow(b, e) == IF e = 0 THEN 1 ELSE b * Pow(b, e - 1)

\* ErrorClassifier.get_retry_delay; the default branch is taken at
\* attempt >= 1
get_retry_delay(classification, attempt, base_delay) ==
    IF classification.retry_after # None /\ classification.retry_after # 0
    THEN classification.retry_after
    ELSE IF classification.error_type = "rate_limit"
    THEN base_delay * Pow(3, attempt)
    ELSE IF classification.error_type = "cloudflare"
    THEN base_delay * Pow(4, attempt)
    ELSE IF classification.error_type = "server_error"
    THEN base_delay * Pow(2, attempt)
    ELSE base_delay * Pow(2, attempt - 1)

\* No delay has been asked for the classification held
NoDelay == [attempt |-> 0, base_delay |-> 0, delay |-> None]

\* No exception has been classified yet
NewEC ==
    /\ ecException = NoException
    /\ ecClassification = NoClassification
    /\ ecDelay = NoDelay

\* A caller classifies an exception
classify_called(exception) ==
    /\ ecException' = exception
    /\ ecClassification' = classify(exception)
    /\ ecDelay' = NoDelay
    /\ UNCHANGED <<now, cbVars, tbVars, swVars, cpVars, ppVars, rtVars, arVars, drVars, etVars, mlVars>>

\* A caller asks the delay for the classification it holds
get_retry_delay_called(attempt, base_delay) ==
    /\ ecClassification # NoClassification
    /\ ecDelay' = [attempt |-> attempt, base_delay |-> base_delay,
                    delay |-> get_retry_delay(ecClassification, attempt, base_delay)]
    /\ UNCHANGED <<now, cbVars, tbVars, swVars, cpVars, ppVars, rtVars,
                   ecException, ecClassification, arVars, drVars, etVars, mlVars>>

NextEC ==
    \/ \E e \in Exceptions : classify_called(e)
    \/ \E a \in 1..MaxAttempts, b \in 1..MaxBaseDelay : get_retry_delay_called(a, b)

\* The classifications a caller builds itself: retryable ones of the
\* categories get_retry_delay tells apart, without a suggested delay and
\* with one of 0 and of 5 seconds
MadeClassifications ==
    {ErrorClassification(t, "medium", TRUE, r, FALSE) :
        t \in {"rate_limit", "cloudflare", "server_error", "network"},
        r \in {None, 0, 5}}

\* A caller builds an ErrorClassification
classification_made(classification) ==
    /\ ecException' = NoException
    /\ ecClassification' = classification
    /\ ecDelay' = NoDelay
    /\ UNCHANGED <<now, cbVars, tbVars, swVars, cpVars, ppVars, rtVars, arVars, drVars, etVars, mlVars>>

\* get_retry_delay on classifications made by classify and by callers
NextRD ==
    \/ \E e \in Exceptions : classify_called(e)
    \/ \E c \in MadeClassifications : classification_made(c)
    \/ \E a \in 1..MaxAttempts, b \in 1..MaxBaseDelay : get_retry_delay_called(a, b)

\* ------------------------------------------------------------------------
\* ErrorTracker
\* ------------------------------------------------------------------------
\* error_counts is read by get_most_common_error alone and is left out.

\* should_pause_scraping: critical errors in the window that pause
CriticalToPause == 5
\* should_pause_scraping: consecutive Cloudflare errors that pause
CloudflareToPause == 3

\* The classifications added to the tracker: a Cloudflare block, a critical
\* failure and a network error
TrackedErrors ==
    {ErrorClassification("cloudflare", "high", TRUE, 60, FALSE),
     ErrorClassification("unknown", "critical", FALSE, None, TRUE),
     ErrorClassification("network", "medium", TRUE, None, FALSE)}

\* The window sizes the tracker is made with
WindowSizes == {1, 3, 5, MaxWindowET}

\* ErrorTracker.__init__(window_size)
NewET(sizes) ==
    /\ tracker \in {[window_size |-> w, errors |-> <<>>] : w \in sizes}
    /\ etObs = [op |-> "init", result |-> FALSE, recorded |-> 0]

\* ErrorTracker.get_error_rate() > 0.8, on exact fractions
error_rate_exceeds(t) ==
    IF t.errors = <<>> THEN FALSE
    ELSE 5 * Len(t.errors) > 4 * t.window_size

\* ErrorTracker.get_consecutive_errors(error_type)
RECURSIVE get_consecutive_errors(_, _)
get_consecutive_errors(errors, error_type) ==
    IF errors = <<>> THEN 0
    ELSE IF errors[Len(errors)].error_type = error_type
    THEN 1 + get_consecutive_errors(SubSeq(errors, 1, Len(errors) - 1), error_type)
    ELSE 0

\* should_pause_scraping that pauses at an error rate of 80% already
should_pause_at_rate(t) ==
    \/ (t.errors # <<>> /\ 5 * Len(t.errors) >= 4 * t.window_size)
    \/ Cardinality({i \in DOMAIN t.errors : t.errors[i].severity = "critical"})
          >= CriticalToPause
    \/ get_consecutive_errors(t.errors, "cloudflare") >= CloudflareToPause

\* ErrorTracker.should_pause_scraping: the value it returns
should_pause(t) ==
    IF error_rate_exceeds(t) THEN TRUE
    ELSE IF Cardinality({i \in DOMAIN t.errors : t.errors[i].severity = "critical"})
              >= CriticalToPause
    THEN TRUE
    ELSE IF get_consecutive_errors(t.errors, "cloudflare") >= CloudflareToPause
    THEN TRUE
    ELSE FALSE

\* ErrorTracker.add_error
add_error(classification) ==
    /\ etObs.recorded < MaxRecorded
    /\ LET appended == Append(tracker.errors, classification)
       IN tracker' = [tracker EXCEPT !.errors =
             IF Len(appended) > tracker.window_size THEN Tail(appended) ELSE appended]
    /\ etObs' = [etObs EXCEPT !.op = "add_error", !.recorded = @ + 1]
    /\ UNCHANGED <<now, cbVars, tbVars, swVars, cpVars, ppVars, rtVars, ecVars, arVars, drVars, mlVars>>

\* ErrorTracker.should_pause_scraping
should_pause_scraping ==
    /\ etObs' = [etObs EXCEPT !.op = "should_pause_scraping", !.result = should_pause(tracker)]
    /\ UNCHANGED <<now, cbVars, tbVars, swVars, cpVars, ppVars, rtVars, ecVars, arVars, drVars,
                   tracker, mlVars>>

\* ErrorTracker.reset
et_reset ==
    /\ tracker.errors # <<>>
    /\ tracker' = [tracker EXCEPT !.errors = <<>>]
    /\ etObs' = [etObs EXCEPT !.op = "reset", !.recorded = 0]
    /\ UNCHANGED <<now, cbVars, tbVars, swVars, cpVars, ppVars, rtVars, ecVars, arVars, drVars, mlVars>>

NextET ==
    \/ \E c \in TrackedErrors : add_error(c)
    \/ should_pause_scraping
    \/ et_reset

\* ------------------------------------------------------------------------
\* Retry strategies and retry_with_strategy
\* ------------------------------------------------------------------------
\* A wait time is the exact fraction num/den of a second. A draw of
\* random.uniform(a, b) is one of a, the middle and b, picked by u in 0..2.
\* RetryContext.elapsed_time is written and never read, and is left out.

Wait(num, den) == [num |-> num, den |-> den]

Draws == 0..2

ExponentialBackoffStrategy(max_attempts, base_delay, max_delay, multiplier, jitter) ==
    [kind |-> "exponential", max_attempts |-> max_attempts, base_delay |-> base_delay,
     max_delay |-> max_delay, multiplier |-> multiplier, jitter |-> jitter]

FibonacciBackoffStrategy(max_attempts, base_delay, max_delay) ==
    [kind |-> "fibonacci", max_attempts |-> max_attempts, base_delay |-> base_delay,
     max_delay |-> max_delay, multiplier |-> 0, jitter |-> FALSE]

AdaptiveRetryStrategy(max_attempts, base_delay, max_delay) ==
    [kind |-> "adaptive", max_attempts |-> max_attempts, base_delay |-> base_delay,
     max_delay |-> max_delay, multiplier |-> 0, jitter |-> FALSE]

\* RetryContext(attempt, total_attempts, last_exception)
RetryContext(attempt, total_attempts, last_exception) ==
    [attempt |-> attempt, total_attempts |-> total_attempts,
     last_exception |-> last_exception]

\* AdaptiveRetryStrategy.should_retry
adaptive_should_retry(s, c) ==
    LET exception == c.last_exception
        status == exception.status_code
    IN IF c.attempt >= s.max_attempts THEN FALSE
       ELSE IF exception = NoException THEN TRUE
       ELSE IF exception.type \in {"ConnectionError", "TimeoutError"} THEN TRUE
       ELSE IF /\ exception.has_response
               /\ status # None /\ status # 0
               /\ 400 <= status /\ status < 500
       THEN status = 429
       ELSE TRUE

\* should_retry that gives up one attempt early
should_retry_early(s, c) ==
    IF s.kind = "adaptive" THEN adaptive_should_retry(s, c) /\ c.attempt + 1 < s.max_attempts
    ELSE c.attempt + 1 < s.max_attempts

\* should_retry that retries once more than max_attempts allows
should_retry_one_more(s, c) ==
    IF s.kind = "adaptive" THEN adaptive_should_retry(s, c)
    ELSE c.attempt < s.max_attempts + 1

\* RetryStrategy.should_retry of the three strategies
should_retry(s, c) ==
    IF s.kind = "adaptive" THEN adaptive_should_retry(s, c)
    ELSE c.attempt < s.max_attempts

\* FibonacciBackoffStrategy._fibonacci
RECURSIVE fib_loop(_, _, _, _)
fib_loop(a, b, i, n) == IF i > n THEN b ELSE fib_loop(b, a + b, i + 1, n)
fibonacci(n) == IF n <= 1 THEN 1 ELSE fib_loop(1, 1, 2, n)

\* min(x, max_delay) for a wait x
CapWait(x, max_delay) ==
    IF x.num > max_delay * x.den THEN Wait(max_delay, 1) ELSE x

\* ExponentialBackoffStrategy.get_wait_time with the exponent one too high
exponential_wait_from_attempt(s, c, u) ==
    LET raw == s.base_delay * Pow(s.multiplier, c.attempt)
        delay == IF raw < s.max_delay THEN raw ELSE s.max_delay
        w == IF s.jitter THEN Wait(4 * delay + (u - 1) * delay, 4) ELSE Wait(delay, 1)
    IN IF w.num < 0 THEN Wait(0, 1) ELSE w

\* ExponentialBackoffStrategy.get_wait_time
exponential_wait(s, c, u) ==
    LET raw == s.base_delay * Pow(s.multiplier, c.attempt - 1)
        delay == IF raw < s.max_delay THEN raw ELSE s.max_delay
        w == IF s.jitter THEN Wait(4 * delay + (u - 1) * delay, 4) ELSE Wait(delay, 1)
    IN IF w.num < 0 THEN Wait(0, 1) ELSE w

\* FibonacciBackoffStrategy.get_wait_time
fibonacci_wait(s, c) ==
    CapWait(Wait(s.base_delay * fibonacci(c.attempt), 1), s.max_delay)

\* AdaptiveRetryStrategy.get_wait_time that caps the Retry-After value
adaptive_wait_caps_header(s, c, u) ==
    LET exception == c.last_exception
        status == exception.status_code
        delay == s.base_delay * Pow(2, c.attempt - 1)
    IN IF exception = NoException THEN Wait(s.base_delay, 1)
       ELSE IF /\ exception.has_response
               /\ exception.retry_after.present
               /\ exception.retry_after.numeric
       THEN CapWait(Wait(exception.retry_after.n, 1), s.max_delay)
       ELSE IF exception.has_response /\ status = 429
       THEN CapWait(Wait(s.base_delay * Pow(3, c.attempt), 1), s.max_delay)
       ELSE IF /\ exception.has_response
               /\ status # None /\ status # 0
               /\ 500 <= status /\ status < 600
       THEN CapWait(Wait(s.base_delay * Pow(2, c.attempt), 1), s.max_delay)
       ELSE CapWait(Wait(20 * delay + u * 3 * delay, 20), s.max_delay)

\* AdaptiveRetryStrategy.get_wait_time
adaptive_wait(s, c, u) ==
    LET exception == c.last_exception
        status == exception.status_code
        delay == s.base_delay * Pow(2, c.attempt - 1)
    IN IF exception = NoException THEN Wait(s.base_delay, 1)
       ELSE IF /\ exception.has_response
               /\ exception.retry_after.present
               /\ exception.retry_after.numeric
       THEN Wait(exception.retry_after.n, 1)
       ELSE IF exception.has_response /\ status = 429
       THEN CapWait(Wait(s.base_delay * Pow(3, c.attempt), 1), s.max_delay)
       ELSE IF /\ exception.has_response
               /\ status # None /\ status # 0
               /\ 500 <= status /\ status < 600
       THEN CapWait(Wait(s.base_delay * Pow(2, c.attempt), 1), s.max_delay)
       ELSE CapWait(Wait(20 * delay + u * 3 * delay, 20), s.max_delay)

\* RetryStrategy.get_wait_time of the three strategies
get_wait_time(s, c, u) ==
    IF s.kind = "exponential" THEN exponential_wait(s, c, u)
    ELSE IF s.kind = "fibonacci" THEN fibonacci_wait(s, c)
    ELSE adaptive_wait(s, c, u)

\* The strategies a call is made with
StrategiesRT ==
    {ExponentialBackoffStrategy(m, b, d, x, j) :
        m \in 0..MaxAttempts, b \in 1..MaxBaseDelay, d \in {1, MaxDelayRT},
        x \in 1..MaxMultiplier, j \in BOOLEAN}
    \cup {FibonacciBackoffStrategy(m, b, d) :
        m \in 0..MaxAttempts, b \in 1..MaxBaseDelay, d \in {1, MaxDelayRT}}
    \cup {AdaptiveRetryStrategy(m, b, d) :
        m \in 0..MaxAttempts, b \in 1..MaxBaseDelay, d \in {1, MaxDelayRT}}

\* The failures func raises: without a response, and with a response of
\* each kind the strategies tell apart
FuncExceptions ==
    {Exc("ConnectionError"), Exc("ValueError"), Exc("RuntimeError"),
     HttpError(None, NoHeader, FALSE), HttpError(404, NoHeader, FALSE),
     HttpError(429, NoHeader, FALSE), HttpError(429, NumHeader(5), FALSE),
     HttpError(429, TextHeader, FALSE), HttpError(500, NoHeader, FALSE),
     HttpError(503, NumHeader(0), FALSE)}

RtObsInit ==
    [invocations |-> 0, sleeps |-> 0, wait |-> Wait(0, 1), retried |-> FALSE,
     raised |-> NoException]

\* Before retry_with_strategy(func, strategy) is called: func fails in its
\* first `func` invocations and returns in every later one
NewRT(strategies, fails) ==
    /\ strategy \in strategies
    /\ func \in fails
    /\ context = RetryContext(0, 0, NoException)
    /\ rtPc = "idle"
    /\ rtObs = RtObsInit

\* The head of the loop, up to `await func(...)`
loop_head ==
    /\ context' = [context EXCEPT !.attempt = @ + 1, !.total_attempts = @ + 1]
    /\ rtPc' = "calling"
    /\ rtObs' = [rtObs EXCEPT !.invocations = @ + 1]

\* retry_with_strategy is called
retry_with_strategy ==
    /\ rtPc = "idle"
    /\ loop_head
    /\ UNCHANGED <<now, cbVars, tbVars, swVars, cpVars, ppVars, ecVars, strategy, func, arVars, drVars, etVars, mlVars>>

\* func returns: retry_with_strategy returns its result
func_returns ==
    /\ rtPc = "calling"
    /\ context.attempt > func
    /\ rtPc' = "returned"
    /\ UNCHANGED <<now, cbVars, tbVars, swVars, cpVars, ppVars, ecVars, strategy, func,
                   context, rtObs, arVars, drVars, etVars, mlVars>>

\* func raises e: the except branch, which re-raises or goes to sleep
func_raises(e, u) ==
    /\ rtPc = "calling"
    /\ context.attempt <= func
    /\ LET c == [context EXCEPT !.last_exception = e]
       IN /\ context' = c
          /\ IF ~should_retry(strategy, c)
             THEN /\ rtPc' = "raised"
                  /\ rtObs' = [rtObs EXCEPT !.retried = FALSE, !.raised = e]
             ELSE /\ rtPc' = "sleeping"
                  /\ rtObs' = [rtObs EXCEPT
                        !.retried = TRUE, !.sleeps = @ + 1,
                        !.wait = get_wait_time(strategy, c, u)]
    /\ UNCHANGED <<now, cbVars, tbVars, swVars, cpVars, ppVars, ecVars, strategy, func, arVars, drVars, etVars, mlVars>>

\* asyncio.sleep(wait_time) ends: the loop goes round
sleep_ends ==
    /\ rtPc = "sleeping"
    /\ loop_head
    /\ UNCHANGED <<now, cbVars, tbVars, swVars, cpVars, ppVars, ecVars, strategy, func, arVars, drVars, etVars, mlVars>>

NextRT ==
    \/ retry_with_strategy
    \/ func_returns
    \/ \E e \in FuncExceptions, u \in Draws : func_raises(e, u)
    \/ sleep_ends

\* The Fibonacci and adaptive strategies get_wait_time is asked of
StrategiesWT ==
    {s \in StrategiesRT : s.kind # "exponential" /\ s.max_attempts = MaxAttempts}

\* strategy.get_wait_time(RetryContext(attempt, attempt, last_exception)),
\* called on its own; random.uniform draws u
get_wait_time_called(attempt, last_exception, u) ==
    /\ context' = RetryContext(attempt, attempt, last_exception)
    /\ rtPc' = "asked"
    /\ rtObs' = [rtObs EXCEPT !.wait = get_wait_time(strategy, context', u)]
    /\ UNCHANGED <<now, cbVars, tbVars, swVars, cpVars, ppVars, ecVars, strategy, func, arVars, drVars, etVars, mlVars>>

NextWT ==
    \E attempt \in 1..MaxWaitAttempt, e \in Exceptions \cup {NoException}, u \in Draws :
        get_wait_time_called(attempt, e, u)

\* ------------------------------------------------------------------------
\* AdaptiveRateLimiter
\* ------------------------------------------------------------------------
\* Rates, factors and token counts are exact fractions num/den in lowest
\* terms with den > 0 (the code computes them in floating point).
RECURSIVE GCD(_, _)
GCD(a, b) == IF b = 0 THEN a ELSE GCD(b, a % b)

Abs(x) == IF x < 0 THEN -x ELSE x

Frac(n, d) ==
    LET g == GCD(Abs(n), Abs(d))
        sgn == IF d < 0 THEN -1 ELSE 1
    IN [num |-> (sgn * n) \div g, den |-> (sgn * d) \div g]

FMul(x, y) == Frac(x.num * y.num, x.den * y.den)
FAdd(x, y) == Frac(x.num * y.den + y.num * x.den, x.den * y.den)
FSub(x, y) == Frac(x.num * y.den - y.num * x.den, x.den * y.den)
FLe(x, y) == x.num * y.den <= y.num * x.den
FLt(x, y) == x.num * y.den < y.num * x.den
\* Python's min(x, y) and max(x, y)
FMin(x, y) == IF FLt(y, x) THEN y ELSE x
FMax(x, y) == IF FLt(x, y) THEN y ELSE x
\* Python's int(x): truncation towards zero
FInt(x) == IF x.num >= 0 THEN x.num \div x.den ELSE -((-x.num) \div x.den)

\* on_success speeds up at this many consecutive successes
SuccessesToIncrease == 10
\* on_error slows down at this many consecutive failures
FailuresToDecrease == 3
\* The factors of on_success, on_rate_limit and on_error, and the default
\* factors of increase_rate and decrease_rate
SuccessFactor == Frac(11, 10)
RateLimitFactor == Frac(1, 2)
ErrorFactor == Frac(4, 5)
DefaultIncrease == Frac(6, 5)
DefaultDecrease == Frac(1, 2)
\* The default min_rate and max_rate
DefaultMinRate == Frac(1, 10)
DefaultMaxRate == Frac(10, 1)

\* AdaptiveRateLimiter.__init__; the wrapped TokenBucketRateLimiter is
\* constructed at time t
AdaptiveRateLimiter(base_rate, min_rate, max_rate, t) ==
    [base_rate |-> base_rate, current_rate |-> base_rate,
     min_rate |-> min_rate, max_rate |-> max_rate,
     token_bucket |-> [rate |-> base_rate,
                       capacity |-> FInt(FMul(base_rate, Frac(10, 1))),
                       tokens |-> Frac(FInt(FMul(base_rate, Frac(10, 1))), 1),
                       last_update |-> t],
     consecutive_successes |-> 0, consecutive_failures |-> 0]

\* set_rate
al_set_rate(l, rate) ==
    LET r == FMax(l.min_rate, FMin(rate, l.max_rate))
    IN [l EXCEPT !.current_rate = r, !.token_bucket.rate = r]

\* increase_rate
al_increase_rate(l, factor) ==
    al_set_rate(l, FMin(FMul(l.current_rate, factor), l.max_rate))

\* decrease_rate
al_decrease_rate(l, factor) ==
    al_set_rate(l, FMax(FMul(l.current_rate, factor), l.min_rate))

\* on_success
al_on_success(l) ==
    LET l1 == [l EXCEPT !.consecutive_successes = @ + 1,
                        !.consecutive_failures = 0]
    IN IF l1.consecutive_successes >= SuccessesToIncrease
       THEN [al_increase_rate(l1, SuccessFactor) EXCEPT !.consecutive_successes = 0]
       ELSE l1

\* on_rate_limit: `if retry_after` is false for None and for 0
al_on_rate_limit(l, retry_after) ==
    LET l1 == [l EXCEPT !.consecutive_failures = @ + 1,
                        !.consecutive_successes = 0]
        new_rate == IF retry_after # None /\ retry_after # 0
                    THEN Frac(1, retry_after)
                    ELSE FMul(l1.current_rate, RateLimitFactor)
    IN al_set_rate(l1, new_rate)

\* on_error that keeps the failure streak after slowing down
al_on_error_keeps_streak(l) ==
    LET l1 == [l EXCEPT !.consecutive_failures = @ + 1,
                        !.consecutive_successes = 0]
    IN IF l1.consecutive_failures >= FailuresToDecrease
       THEN al_decrease_rate(l1, ErrorFactor)
       ELSE l1

\* on_error
al_on_error(l) ==
    LET l1 == [l EXCEPT !.consecutive_failures = @ + 1,
                        !.consecutive_successes = 0]
    IN IF l1.consecutive_failures >= FailuresToDecrease
       THEN [al_decrease_rate(l1, ErrorFactor) EXCEPT !.consecutive_failures = 0]
       ELSE l1

\* The arguments the limiter is constructed and called with
BaseRates == {Frac(1, 20), Frac(1, 1), Frac(20, 1)}
RateBounds == {<<DefaultMinRate, DefaultMaxRate>>, <<Frac(1, 2), Frac(2, 1)>>}
RetryAfters == {None, 0, 1, 2, 5}
SetRates == {Frac(1, 20), Frac(3, 1), Frac(20, 1)}

\* What the run has shown so far.  op: the last call.  arg: its retry_after
\* (None when it has none).  before: the limiter before that call.
\* adjustments: how many times set_rate has run.  errors: on_error calls
\* since the last on_success or the last on_error that slowed down.
ArObsInit(l) ==
    [op |-> "init", arg |-> None, before |-> l, adjustments |-> 0, errors |-> 0]

\* AdaptiveRateLimiter(base_rate, min_rate, max_rate), its arguments drawn
\* from the given sets
NewAR(base_rates, bounds) ==
    /\ \E b \in base_rates, mm \in bounds :
          limiter = AdaptiveRateLimiter(b, mm[1], mm[2], 1)
    /\ arObs = ArObsInit(limiter)

\* One call on the limiter: l is the limiter it leaves, adjusted tells
\* whether set_rate ran in it
Called(op, arg, l, adjusted) ==
    /\ arObs.adjustments < MaxAdjustments
    /\ limiter' = l
    /\ arObs' = [op |-> op, arg |-> arg, before |-> limiter,
                 adjustments |-> arObs.adjustments + (IF adjusted THEN 1 ELSE 0),
                 errors |-> CASE op = "on_success" -> 0
                              [] op = "on_error" -> IF adjusted THEN 0
                                                    ELSE arObs.errors + 1
                              [] OTHER -> arObs.errors]
    /\ UNCHANGED <<now, cbVars, tbVars, swVars, cpVars, ppVars, rtVars, ecVars, drVars, etVars, mlVars>>

OnSuccess ==
    Called("on_success", None, al_on_success(limiter),
           limiter.consecutive_successes + 1 >= SuccessesToIncrease)

OnRateLimit(retry_after) ==
    Called("on_rate_limit", retry_after, al_on_rate_limit(limiter, retry_after), TRUE)

OnError ==
    Called("on_error", None, al_on_error(limiter),
           limiter.consecutive_failures + 1 >= FailuresToDecrease)

IncreaseRate(factor) ==
    Called("increase_rate", None, al_increase_rate(limiter, factor), TRUE)

DecreaseRate(factor) ==
    Called("decrease_rate", None, al_decrease_rate(limiter, factor), TRUE)

SetRate(rate) ==
    Called("set_rate", None, al_set_rate(limiter, rate), TRUE)

NextAR ==
    \/ OnSuccess
    \/ \E r \in RetryAfters : OnRateLimit(r)
    \/ OnError
    \/ IncreaseRate(DefaultIncrease)
    \/ DecreaseRate(DefaultDecrease)
    \/ \E r \in SetRates : SetRate(r)

\* ------------------------------------------------------------------------
\* DomainRateLimiter
\* ------------------------------------------------------------------------
Domains == {"d1", "d2"}

\* get_limiter's base_rate when the caller gives none
DefaultBaseRate == Frac(1, 1)

\* The base_rate arguments get_limiter is called with
DomainBaseRates == {Frac(1, 10), DefaultBaseRate}

\* The retry_after arguments on_rate_limit is called with
DomainRetryAfters == {None, 2}

\* An object of the registry: id tells the instances apart (the n-th
\* AdaptiveRateLimiter the registry constructed), obj is its state
Instance(id, l) == [id |-> id, obj |-> l]

\* What the run has shown so far.  op, domain: the last call.  returned:
\* the id of the instance get_limiter returned in it (0: none).  created:
\* instances constructed so far.  calls: calls made so far.
DrObsInit == [op |-> "init", domain |-> "", returned |-> 0, created |-> 0, calls |-> 0]

\* DomainRateLimiter.__init__
NewDR ==
    /\ limiters = <<>>
    /\ drWake = [d \in Domains |-> None]
    /\ drObs = DrObsInit

\* The smallest integer at or above a fraction
FCeil(x) == -((-x.num) \div x.den)

\* _refill that adds the elapsed tokens without the limit of the capacity
al_refill_unclamped(b) ==
    [b EXCEPT !.tokens = FAdd(b.tokens, FMul(Frac(now - b.last_update, 1), b.rate)),
              !.last_update = now]

\* TokenBucketRateLimiter._refill on the bucket of an adaptive limiter
al_refill(b) ==
    [b EXCEPT !.tokens = FMin(Frac(b.capacity, 1),
                              FAdd(b.tokens, FMul(Frac(now - b.last_update, 1), b.rate))),
              !.last_update = now]

\* get_limiter that constructs a new limiter on every call
registry_always_new(domain, base_rate) ==
    [d \in DOMAIN limiters \cup {domain} |->
        IF d = domain
        THEN Instance(drObs.created + 1,
                      AdaptiveRateLimiter(base_rate, DefaultMinRate, DefaultMaxRate, now))
        ELSE limiters[d]]

\* get_limiter: the registry it leaves
registry(domain, base_rate) ==
    IF domain \notin DOMAIN limiters
    THEN [d \in DOMAIN limiters \cup {domain} |->
            IF d = domain
            THEN Instance(drObs.created + 1,
                          AdaptiveRateLimiter(base_rate, DefaultMinRate, DefaultMaxRate, now))
            ELSE limiters[d]]
    ELSE limiters

\* A call on the registry: reg is the registry it leaves, ret the id of the
\* instance get_limiter returned to it (0 when it did not call get_limiter)
DomainCall(op, domain, reg, ret) ==
    /\ drObs.calls < MaxDomainCalls
    /\ limiters' = reg
    /\ drObs' = [op |-> op, domain |-> domain, returned |-> ret,
                 created |-> IF DOMAIN reg = DOMAIN limiters
                             THEN drObs.created ELSE drObs.created + 1,
                 calls |-> drObs.calls + 1]
    /\ UNCHANGED <<now, cbVars, tbVars, swVars, cpVars, ppVars, rtVars, ecVars, arVars, etVars, mlVars>>

\* get_limiter(domain, base_rate)
get_limiter(domain, base_rate) ==
    LET reg == registry(domain, base_rate)
    IN /\ DomainCall("get_limiter", domain, reg, reg[domain].id)
       /\ UNCHANGED drWake

\* DomainRateLimiter.acquire(domain): get_limiter, then the token bucket's
\* acquire from its entry to `return True` or to asyncio.sleep
dr_acquire(domain) ==
    LET reg == registry(domain, DefaultBaseRate)
        b == al_refill(reg[domain].obj.token_bucket)
    IN /\ drWake[domain] = None
       /\ IF FLe(Frac(1, 1), b.tokens)
          THEN /\ DomainCall("acquire", domain,
                      [reg EXCEPT ![domain].obj.token_bucket =
                          [b EXCEPT !.tokens = FSub(@, Frac(1, 1))]],
                      reg[domain].id)
               /\ UNCHANGED drWake
          ELSE /\ DomainCall("acquire", domain,
                      [reg EXCEPT ![domain].obj.token_bucket = b], reg[domain].id)
               /\ drWake' = [drWake EXCEPT ![domain] =
                      now + FCeil(FMul(FSub(Frac(1, 1), b.tokens),
                                       Frac(b.rate.den, b.rate.num)))]

\* DomainRateLimiter.acquire(domain): from the end of asyncio.sleep to
\* `return True`
dr_acquire_wakes(domain) ==
    /\ drWake[domain] # None
    /\ now >= drWake[domain]
    /\ limiters' = [limiters EXCEPT ![domain].obj.token_bucket =
          [al_refill(@) EXCEPT !.tokens = FSub(@, Frac(1, 1))]]
    /\ drWake' = [drWake EXCEPT ![domain] = None]
    /\ drObs' = [drObs EXCEPT !.op = "acquire_wakes", !.domain = domain, !.returned = 0]
    /\ UNCHANGED <<now, cbVars, tbVars, swVars, cpVars, ppVars, rtVars, ecVars, arVars, etVars, mlVars>>

\* DomainRateLimiter.on_success(domain): nothing for a domain not yet seen
dr_on_success(domain) ==
    /\ DomainCall("on_success", domain,
          IF domain \in DOMAIN limiters
          THEN [limiters EXCEPT ![domain].obj = al_on_success(@)]
          ELSE limiters, 0)
    /\ UNCHANGED drWake

\* DomainRateLimiter.on_rate_limit(domain, retry_after)
dr_on_rate_limit(domain, retry_after) ==
    LET reg == registry(domain, DefaultBaseRate)
    IN /\ DomainCall("on_rate_limit", domain,
             [reg EXCEPT ![domain].obj = al_on_rate_limit(@, retry_after)],
             reg[domain].id)
       /\ UNCHANGED drWake

\* time passes
TickDR ==
    /\ now < MaxTimeDR
    /\ now' = now + TickSecondsDR
    /\ UNCHANGED <<cbVars, tbVars, swVars, cpVars, ppVars, rtVars, ecVars, arVars, drVars, etVars, mlVars>>

NextDR ==
    \/ \E d \in Domains, b \in DomainBaseRates : get_limiter(d, b)
    \/ \E d \in Domains : dr_acquire(d)
    \/ \E d \in Domains : dr_acquire_wakes(d)
    \/ \E d \in Domains : dr_on_success(d)
    \/ \E d \in Domains, r \in DomainRetryAfters : dr_on_rate_limit(d, r)
    \/ TickDR

\* ------------------------------------------------------------------------
\* Specifications
\* ------------------------------------------------------------------------
\* Each specification exercises one component; the others are constructed
\* and left alone.
InitCB ==
    /\ now = 1
    /\ NewCB(1..MaxThreshold, 1..MaxThreshold, 1..MaxTimeout)
    /\ NewTB({1}, {1})
    /\ NewSW({1}, {1})
    /\ NewCP
    /\ NewPP({"round_robin"})
    /\ NewRT({FibonacciBackoffStrategy(1, 1, 1)}, {0})
    /\ NewEC
    /\ NewAR({Frac(1, 1)}, {<<DefaultMinRate, DefaultMaxRate>>})
    /\ NewDR
    /\ NewET({1})
    /\ NewML({1}, {1})

InitTB ==
    /\ now = 1
    /\ NewCB({1}, {1}, {1})
    /\ NewTB(1..MaxRate, 1..MaxCapacity)
    /\ NewSW({1}, {1})
    /\ NewCP
    /\ NewPP({"round_robin"})
    /\ NewRT({FibonacciBackoffStrategy(1, 1, 1)}, {0})
    /\ NewEC
    /\ NewAR({Frac(1, 1)}, {<<DefaultMinRate, DefaultMaxRate>>})
    /\ NewDR
    /\ NewET({1})
    /\ NewML({1}, {1})

InitSW ==
    /\ now = 1
    /\ NewCB({1}, {1}, {1})
    /\ NewTB({1}, {1})
    /\ NewSW(1..MaxWindow, 1..MaxRequests)
    /\ NewCP
    /\ NewPP({"round_robin"})
    /\ NewRT({FibonacciBackoffStrategy(1, 1, 1)}, {0})
    /\ NewEC
    /\ NewAR({Frac(1, 1)}, {<<DefaultMinRate, DefaultMaxRate>>})
    /\ NewDR
    /\ NewET({1})
    /\ NewML({1}, {1})

InitCP ==
    /\ now = 1
    /\ NewCB({1}, {1}, {1})
    /\ NewTB({1}, {1})
    /\ NewSW({1}, {1})
    /\ NewCP
    /\ NewPP({"round_robin"})
    /\ NewRT({FibonacciBackoffStrategy(1, 1, 1)}, {0})
    /\ NewEC
    /\ NewAR({Frac(1, 1)}, {<<DefaultMinRate, DefaultMaxRate>>})
    /\ NewDR
    /\ NewET({1})
    /\ NewML({1}, {1})

InitPP ==
    /\ now = 1
    /\ NewCB({1}, {1}, {1})
    /\ NewTB({1}, {1})
    /\ NewSW({1}, {1})
    /\ NewCP
    /\ NewPP(Strategies)
    /\ NewRT({FibonacciBackoffStrategy(1, 1, 1)}, {0})
    /\ NewEC
    /\ NewAR({Frac(1, 1)}, {<<DefaultMinRate, DefaultMaxRate>>})
    /\ NewDR
    /\ NewET({1})
    /\ NewML({1}, {1})

\* ProxyRotator constructs its pool with rotation_strategy="round_robin"
InitPR ==
    /\ now = 1
    /\ NewCB({1}, {1}, {1})
    /\ NewTB({1}, {1})
    /\ NewSW({1}, {1})
    /\ NewCP
    /\ NewPP({"round_robin"})
    /\ NewRT({FibonacciBackoffStrategy(1, 1, 1)}, {0})
    /\ NewEC
    /\ NewAR({Frac(1, 1)}, {<<DefaultMinRate, DefaultMaxRate>>})
    /\ NewDR
    /\ NewET({1})
    /\ NewML({1}, {1})

InitRT ==
    /\ now = 1
    /\ NewCB({1}, {1}, {1})
    /\ NewTB({1}, {1})
    /\ NewSW({1}, {1})
    /\ NewCP
    /\ NewPP({"round_robin"})
    /\ NewRT(StrategiesRT, 0..MaxAttempts)
    /\ NewEC
    /\ NewAR({Frac(1, 1)}, {<<DefaultMinRate, DefaultMaxRate>>})
    /\ NewDR
    /\ NewET({1})
    /\ NewML({1}, {1})

InitET ==
    /\ now = 1
    /\ NewCB({1}, {1}, {1})
    /\ NewTB({1}, {1})
    /\ NewSW({1}, {1})
    /\ NewCP
    /\ NewPP({"round_robin"})
    /\ NewRT({FibonacciBackoffStrategy(1, 1, 1)}, {0})
    /\ NewEC
    /\ NewAR({Frac(1, 1)}, {<<DefaultMinRate, DefaultMaxRate>>})
    /\ NewDR
    /\ NewET(WindowSizes)
    /\ NewML({1}, {1})

InitML ==
    /\ now = 1
    /\ NewCB({1}, {1}, {1})
    /\ NewTB({1}, {1})
    /\ NewSW({1}, {1})
    /\ NewCP
    /\ NewPP({"round_robin"})
    /\ NewRT({FibonacciBackoffStrategy(1, 1, 1)}, {0})
    /\ NewEC
    /\ NewAR({Frac(1, 1)}, {<<DefaultMinRate, DefaultMaxRate>>})
    /\ NewDR
    /\ NewET({1})
    /\ NewML(1..MaxPerMinute, 1..MaxPerHour)

InitWT ==
    /\ now = 1
    /\ NewCB({1}, {1}, {1})
    /\ NewTB({1}, {1})
    /\ NewSW({1}, {1})
    /\ NewCP
    /\ NewPP({"round_robin"})
    /\ NewRT(StrategiesWT, {0})
    /\ NewEC
    /\ NewAR({Frac(1, 1)}, {<<DefaultMinRate, DefaultMaxRate>>})
    /\ NewDR
    /\ NewET({1})
    /\ NewML({1}, {1})

InitEC ==
    /\ now = 1
    /\ NewCB({1}, {1}, {1})
    /\ NewTB({1}, {1})
    /\ NewSW({1}, {1})
    /\ NewCP
    /\ NewPP({"round_robin"})
    /\ NewRT({FibonacciBackoffStrategy(1, 1, 1)}, {0})
    /\ NewEC
    /\ NewAR({Frac(1, 1)}, {<<DefaultMinRate, DefaultMaxRate>>})
    /\ NewDR
    /\ NewET({1})
    /\ NewML({1}, {1})

InitAR ==
    /\ now = 1
    /\ NewCB({1}, {1}, {1})
    /\ NewTB({1}, {1})
    /\ NewSW({1}, {1})
    /\ NewCP
    /\ NewPP({"round_robin"})
    /\ NewRT({FibonacciBackoffStrategy(1, 1, 1)}, {0})
    /\ NewEC
    /\ NewAR(BaseRates, RateBounds)
    /\ NewDR
    /\ NewET({1})
    /\ NewML({1}, {1})

InitDR ==
    /\ now = 1
    /\ NewCB({1}, {1}, {1})
    /\ NewTB({1}, {1})
    /\ NewSW({1}, {1})
    /\ NewCP
    /\ NewPP({"round_robin"})
    /\ NewRT({FibonacciBackoffStrategy(1, 1, 1)}, {0})
    /\ NewEC
    /\ NewAR({Frac(1, 1)}, {<<DefaultMinRate, DefaultMaxRate>>})
    /\ NewDR
    /\ NewET({1})
    /\ NewML({1}, {1})

\* Concurrent guarded calls on one breaker
NextCB ==
    \/ call
    \/ call_returns
    \/ call_raises
    \/ call_escapes
    \/ reset
    \/ TickCB

SpecCB == InitCB /\ [][NextCB]_vars

\* Calls made one after another: call() is entered only when none is in flight
seq_call ==
    /\ inflight = 0
    /\ call

NextCBSeq ==
    \/ seq_call
    \/ call_returns
    \/ call_raises
    \/ call_escapes
    \/ reset
    \/ TickCB

SpecCBSeq == InitCB /\ [][NextCBSeq]_vars

SpecTB == InitTB /\ [][NextTB]_vars

SpecSW == InitSW /\ [][NextSW]_vars

SpecCP == InitCP /\ [][NextCP]_vars

SpecPP == InitPP /\ [][NextPP]_vars

SpecPR == InitPR /\ [][NextPR]_vars

SpecPC == InitPR /\ [][NextPC]_vars

\* The event loop runs func to its end and ends every sleep
SpecRT == InitRT /\ [][NextRT]_vars /\ WF_vars(NextRT)

SpecWT == InitWT /\ [][NextWT]_vars

SpecEC == InitEC /\ [][NextEC]_vars

SpecRD == InitEC /\ [][NextRD]_vars

SpecET == InitET /\ [][NextET]_vars

SpecML == InitML /\ [][NextML]_vars

SpecAR == InitAR /\ [][NextAR]_vars

SpecDR == InitDR /\ [][NextDR]_vars

\* asyncio resumes a coroutine whose sleep has ended
SpecSWSeq == InitSW /\ [][NextSWSeq]_vars /\ WF_vars(sw_acquire_wakes("a"))

\* ------------------------------------------------------------------------
\* Properties of the circuit breaker
\* ------------------------------------------------------------------------

\* C1: calls made one after another: from CLOSED the breaker opens exactly
\* on the step that records the failure_threshold-th consecutive failure
\* (a success restarts the count); with fewer consecutive failures it is
\* still CLOSED.
C1_OpensAtThreshold ==
    /\ [](state = CLOSED => cbObs.streak < failure_threshold)
    /\ [][state = CLOSED =>
            (/\ state' \in {CLOSED, OPEN}
             /\ ((state' = OPEN) <=> (/\ cbObs'.lastOp = "failure"
                                     /\ cbObs'.streak = failure_threshold)))]_vars

\* C1 witness: a success restarted the count, and the second of two
\* consecutive failures opened the breaker from CLOSED
C1_Witness ==
    /\ failure_threshold = 2
    /\ cbObs.prev = CLOSED
    /\ state = OPEN
    /\ cbObs.lastOp = "failure"
    /\ cbObs.streak = 2
    /\ stats.successful_requests >= 1
    /\ stats.failed_requests = 3

\* C2: a call() entered while the breaker is OPEN and less than timeout has
\* elapsed since it opened raises CircuitBreakerError, which is not the
\* operation's own error, and does not invoke the operation.
C2_OpenRejects ==
    [][(/\ state = OPEN
        /\ now - opened_at < timeout
        /\ cbObs'.entered = cbObs.entered + 1)
          => (/\ cbObs'.raised = "CircuitBreakerError"
              /\ cbObs'.raised # "expected_exception"
              /\ cbObs'.invoked = cbObs.invoked
              /\ inflight' = inflight
              /\ state' = OPEN)]_vars

\* C2 witness: a call was rejected after time had passed since the opening,
\* but less than timeout
C2_Witness ==
    /\ state = OPEN
    /\ cbObs.lastOp = "rejected"
    /\ cbObs.raised = "CircuitBreakerError"
    /\ now > opened_at
    /\ now - opened_at < timeout

\* C3: a call() entered once timeout has elapsed since the opening is
\* admitted: the state becomes HALF_OPEN and the operation is invoked.  The
\* breaker leaves OPEN only in such a call() or in reset().
C3_LazyHalfOpen ==
    /\ [](state = OPEN => opened_at >= 1)
    /\ [][/\ ((/\ state = OPEN
               /\ now - opened_at >= timeout
               /\ cbObs'.entered = cbObs.entered + 1)
                 => (/\ state' = HALF_OPEN
                     /\ cbObs'.raised = ""
                     /\ cbObs'.invoked = cbObs.invoked + 1
                     /\ inflight' = inflight + 1))
          /\ ((state = OPEN /\ state' # OPEN)
                 => (\/ cbObs'.lastOp = "reset"
                     \/ /\ cbObs'.lastOp = "admitted"
                        /\ state' = HALF_OPEN
                        /\ now - opened_at >= timeout))]_vars

\* C3 witness: a call admitted from OPEN exactly when the timeout had
\* elapsed, while an earlier call was still in flight
C3_Witness ==
    /\ cbObs.prev = OPEN
    /\ state = HALF_OPEN
    /\ cbObs.lastOp = "admitted"
    /\ now - opened_at = timeout
    /\ inflight = 2

\* C4: a failure recorded in HALF_OPEN moves the breaker to OPEN in the
\* same step with opened_at set to the time of that failure, and a call()
\* entered before timeout has elapsed from that failure is rejected.
C4_HalfOpenFailureReopens ==
    [][/\ ((state = HALF_OPEN /\ cbObs'.lastOp = "failure")
              => (state' = OPEN /\ opened_at' = now'))
       /\ ((/\ cbObs.prev = HALF_OPEN
            /\ cbObs.lastOp = "failure"
            /\ now - stats.last_failure_time < timeout
            /\ cbObs'.entered = cbObs.entered + 1)
              => (cbObs'.lastOp = "rejected" /\ cbObs'.invoked = cbObs.invoked))]_vars

\* C4 witness: the breaker had opened earlier, and a failure in HALF_OPEN
\* reopened it with a later opened_at
C4_Witness ==
    /\ cbObs.prev = HALF_OPEN
    /\ cbObs.lastOp = "failure"
    /\ state = OPEN
    /\ opened_at = now
    /\ now >= 3

\* C5: the breaker goes from HALF_OPEN to CLOSED exactly when
\* success_threshold consecutive successes were recorded for calls made
\* since it entered HALF_OPEN, never after fewer, and the consecutive
\* failure count is then 0.
C5_ClosesAfterThresholdProbes ==
    [][/\ ((state = HALF_OPEN /\ state' = CLOSED /\ cbObs'.lastOp # "reset")
              => (/\ cbObs'.probeStreak >= success_threshold
                  /\ stats'.consecutive_failures = 0))
       /\ ((/\ state = HALF_OPEN
            /\ cbObs'.lastOp = "success"
            /\ cbObs'.probeStreak >= success_threshold)
              => state' = CLOSED)]_vars

\* C21: a call() that the breaker rejects adds 1 to rejected_requests and
\* leaves the state, opened_at, every other field of the statistics (the
\* total, successful and failed counters, both streaks, both timestamps)
\* and the calls in flight as they were.
C21_RejectionFrame ==
    [][(cbObs'.entered = cbObs.entered + 1 /\ cbObs'.raised = "CircuitBreakerError")
          => (/\ stats' = [stats EXCEPT !.rejected_requests = @ + 1]
              /\ state' = state
              /\ opened_at' = opened_at
              /\ inflight' = inflight)]_vars

\* C21 witness: a second rejection in a row, after a failure had been
\* recorded and while a call was still in flight
C21_Witness ==
    /\ cbObs.lastOp = "rejected"
    /\ state = OPEN
    /\ stats.rejected_requests = 2
    /\ stats.consecutive_failures >= 1
    /\ inflight = 1

\* C22: every finish of an admitted call (return, any exception,
\* cancellation) adds exactly 1 to successful_requests + failed_requests,
\* and whenever no call is in flight total_requests = successful_requests
\* + failed_requests.
C22_EveryCallCounted ==
    /\ [](inflight = 0 =>
            stats.total_requests = stats.successful_requests + stats.failed_requests)
    /\ [][inflight' = inflight - 1 =>
            stats'.successful_requests + stats'.failed_requests
               = stats.successful_requests + stats.failed_requests + 1]_vars

\* C23: with success_threshold = 1, at most one call admitted in the
\* current HALF_OPEN period is in flight while the breaker is HALF_OPEN.
C23_OneProbeInFlight ==
    (success_threshold = 1 /\ state = HALF_OPEN) => cbObs.probes <= 1

\* C32: opened_at holds a timestamp only while the breaker is OPEN; it is
\* None whenever the breaker is CLOSED or HALF_OPEN.
C32_OpenedAtOnlyWhileOpen ==
    /\ (state = OPEN => opened_at # None)
    /\ (state \in {CLOSED, HALF_OPEN} => opened_at = None)

\* C28: whenever the breaker is CLOSED its consecutive-failure count is
\* below failure_threshold, also when calls finish after the state changed
\* and when reset() is called.
C28_ClosedBelowThreshold ==
    state = CLOSED => stats.consecutive_failures < failure_threshold

\* C28 witness: with failure_threshold = 1 and timeout = 1 the breaker
\* opened at time 1, a second failure was recorded by a call that was
\* admitted before it opened, and a probe at time 2 closed it
C28_Witness ==
    /\ failure_threshold = 1
    /\ state = CLOSED
    /\ cbObs.prev = HALF_OPEN
    /\ cbObs.lastOp = "success"
    /\ stats.failed_requests = 2
    /\ now = 2

\* ------------------------------------------------------------------------
\* Properties of the rate limiters
\* ------------------------------------------------------------------------

\* Tokens granted at the clock values t1..t2
RECURSIVE GrantedIn(_, _)
GrantedIn(t1, t2) ==
    IF t1 > t2 THEN 0 ELSE tbGranted[t1] + GrantedIn(t1 + 1, t2)

\* C6: under any interleaving of concurrent acquire(n) callers, n <= C, the
\* tokens granted in any time window of length T (the clock values t1..t2,
\* T = t2 - t1) never exceed capacity + rate * T.
C6_WindowBound ==
    \A t1 \in 1..MaxTimeTB : \A t2 \in t1..MaxTimeTB :
        GrantedIn(t1, t2) <= bucket.capacity + bucket.rate * (t2 - t1)

\* Returns of acquire() in the trailing window (t - window_size, t]
AdmittedIn(t) ==
    Cardinality({i \in DOMAIN swLog :
                    t - window.window_size < swLog[i] /\ swLog[i] <= t})

\* C7: under any interleaving of concurrent acquire() callers, at most
\* max_requests acquire() calls return within any trailing window of
\* window_size seconds.
C7_WindowLimit ==
    \A t \in 1..MaxTimeSW : AdmittedIn(t) <= window.max_requests

\* The oldest of the last max_requests admissions
OldestOfLastN == swLog[Len(swLog) - window.max_requests + 1]

\* C8: a single caller, one request after another: an acquire() made when
\* max_requests operations were admitted within the last window_size
\* seconds returns no earlier than window_size after the oldest of them (the
\* (N+1)-th of any N+1 successive admissions comes at least window_size
\* after the first), and once the oldest is window_size old it does return.
C8_DelayedUntilOldestLeaves ==
    /\ [](\A i \in DOMAIN swLog :
             i > window.max_requests
                => swLog[i] >= swLog[i - window.max_requests] + window.window_size)
    /\ [](swPc["a"] = "sleeping" => swWake["a"] = OldestOfLastN + window.window_size)
    /\ ((swPc["a"] = "sleeping" /\ now >= OldestOfLastN + window.window_size)
           ~> swPc["a"] = "idle")

\* C8 witness: with two admissions in the window the third acquire() slept
\* and has returned exactly window_size after the first
C8_Witness ==
    /\ window.max_requests = 2
    /\ window.window_size = 3
    /\ Len(swLog) = 3
    /\ swLog[1] < swLog[2]
    /\ swLog[3] = swLog[1] + 3
    /\ swPc["a"] = "idle"

\* ------------------------------------------------------------------------
\* Properties of the adaptive and per-domain rate limiters
\* ------------------------------------------------------------------------

\* C24: in every state of an AdaptiveRateLimiter, from its construction on,
\* min_rate <= current_rate <= max_rate and the wrapped token bucket's
\* rate equals current_rate.
C24_RateWithinBounds ==
    /\ FLe(limiter.min_rate, limiter.current_rate)
    /\ FLe(limiter.current_rate, limiter.max_rate)
    /\ limiter.token_bucket.rate = limiter.current_rate

\* A rate clamped to the limiter's [min_rate, max_rate]
Clamped(l, rate) == FMax(l.min_rate, FMin(rate, l.max_rate))

\* C29: after on_rate_limit the rate is 1/retry_after when a retry_after
\* is given (not None, not 0) and half the rate before otherwise, each
\* clamped to [min_rate, max_rate], and it is not higher than the rate
\* before the call.
C29_RateLimitLowersRate ==
    [][arObs'.op = "on_rate_limit" =>
         /\ limiter'.current_rate =
               Clamped(limiter,
                       IF arObs'.arg \in {None, 0}
                       THEN FMul(limiter.current_rate, RateLimitFactor)
                       ELSE Frac(1, arObs'.arg))
         /\ FLe(limiter'.current_rate, limiter.current_rate)]_vars

\* C30 as stated: on_success changes the rate only at the 10th consecutive
\* success (x1.1, capped at max_rate, success streak back to 0) and
\* on_error only at the 3rd consecutive generic error (x0.8, floored at
\* min_rate, failure streak back to 0); other on_success and on_error
\* calls keep the rate; a success resets the failure streak and a failure
\* resets the success streak.
C30_TenthSuccessThirdError ==
    [][/\ (arObs'.op = "on_success" =>
            /\ limiter'.consecutive_failures = 0
            /\ IF limiter.consecutive_successes + 1 = SuccessesToIncrease
               THEN /\ limiter'.current_rate =
                         FMin(FMul(limiter.current_rate, SuccessFactor), limiter.max_rate)
                    /\ limiter'.consecutive_successes = 0
               ELSE /\ limiter'.current_rate = limiter.current_rate
                    /\ limiter'.consecutive_successes = limiter.consecutive_successes + 1)
       /\ (arObs'.op = "on_error" =>
            /\ limiter'.consecutive_successes = 0
            /\ IF arObs.errors + 1 = FailuresToDecrease
               THEN /\ limiter'.current_rate =
                         FMax(FMul(limiter.current_rate, ErrorFactor), limiter.min_rate)
                    /\ limiter'.consecutive_failures = 0
               ELSE limiter'.current_rate = limiter.current_rate)]_vars

\* C30 amended: on_success changes the rate exactly at the 10th
\* consecutive success, to rate x1.1 clamped to [min_rate, max_rate], and
\* the success streak restarts at 0.  on_error changes it exactly when
\* consecutive_failures, which counts rate-limit signals as well as
\* generic errors since the last success or the last such slow-down,
\* reaches 3 or more with this error, to rate x0.8 clamped to [min_rate,
\* max_rate], and the failure streak restarts at 0.  Every other
\* on_success or on_error call keeps the rate (and the bucket's rate); a
\* success resets the failure streak and a failure the success streak.
C30_AtStreakThresholds ==
    [][/\ (arObs'.op = "on_success" =>
            /\ limiter'.consecutive_failures = 0
            /\ IF limiter.consecutive_successes + 1 = SuccessesToIncrease
               THEN /\ limiter'.current_rate =
                         Clamped(limiter, FMul(limiter.current_rate, SuccessFactor))
                    /\ limiter'.consecutive_successes = 0
               ELSE /\ limiter'.current_rate = limiter.current_rate
                    /\ limiter'.token_bucket = limiter.token_bucket
                    /\ limiter'.consecutive_successes = limiter.consecutive_successes + 1)
       /\ (arObs'.op = "on_error" =>
            /\ limiter'.consecutive_successes = 0
            /\ IF limiter.consecutive_failures + 1 >= FailuresToDecrease
               THEN /\ limiter'.current_rate =
                         Clamped(limiter, FMul(limiter.current_rate, ErrorFactor))
                    /\ limiter'.consecutive_failures = 0
               ELSE /\ limiter'.current_rate = limiter.current_rate
                    /\ limiter'.token_bucket = limiter.token_bucket
                    /\ limiter'.consecutive_failures = limiter.consecutive_failures + 1)
       /\ limiter'.consecutive_successes < SuccessesToIncrease]_vars

\* C30 witness: the first generic error after two rate-limit signals
\* slowed the limiter down to 0.8 of its rate and restarted the streak
C30_Witness ==
    /\ arObs.op = "on_error"
    /\ arObs.errors = 0
    /\ arObs.before.consecutive_failures = 2
    /\ limiter.consecutive_failures = 0
    /\ limiter.current_rate = FMul(arObs.before.current_rate, ErrorFactor)
    /\ FLt(limiter.min_rate, limiter.current_rate)

\* C30, the other case: the 10th success in a row sped the limiter up to
\* 1.1 of its rate
C30_WitnessSuccess ==
    /\ arObs.op = "on_success"
    /\ arObs.before.consecutive_successes = SuccessesToIncrease - 1
    /\ limiter.consecutive_successes = 0
    /\ limiter.current_rate = FMul(arObs.before.current_rate, SuccessFactor)
    /\ arObs.adjustments >= 2

\* C25: get_limiter, acquire and on_rate_limit for a domain not yet seen
\* construct its limiter, and every later call gets the same instance; a
\* call for one domain leaves every other domain's limiter (rate, tokens,
\* streaks) and pending acquire as they were.
C25_DomainsIndependent ==
    [][/\ \A d \in DOMAIN limiters :
            /\ d \in DOMAIN limiters'
            /\ limiters'[d].id = limiters[d].id
       /\ (drObs'.calls = drObs.calls + 1 /\ drObs'.op # "on_success") =>
            /\ drObs'.domain \in DOMAIN limiters'
            /\ drObs'.returned = limiters'[drObs'.domain].id
            /\ (drObs'.domain \notin DOMAIN limiters =>
                  /\ drObs'.created = drObs.created + 1
                  /\ limiters'[drObs'.domain].id = drObs'.created)
            /\ (drObs'.domain \in DOMAIN limiters => drObs'.created = drObs.created)
       /\ \A d \in Domains :
            d # drObs'.domain =>
               /\ drWake'[d] = drWake[d]
               /\ (d \in DOMAIN limiters <=> d \in DOMAIN limiters')
               /\ (d \in DOMAIN limiters => limiters'[d] = limiters[d])]_vars

\* C25 witness: both domains have a limiter, d2's was slowed down by a
\* rate-limit signal, and an acquire on d1 that had to sleep has just
\* returned with d1's rate untouched
C25_Witness ==
    /\ DOMAIN limiters = Domains
    /\ drObs.op = "acquire_wakes"
    /\ drObs.domain = "d1"
    /\ limiters["d1"].obj.current_rate = limiters["d1"].obj.base_rate
    /\ FLt(limiters["d2"].obj.current_rate, limiters["d2"].obj.base_rate)

\* ------------------------------------------------------------------------
\* Properties of the proxy pool's maintenance
\* ------------------------------------------------------------------------

\* The proxy has at least 10 recorded requests and a success rate below m
Evicted(p, m) ==
    /\ p.total_requests >= 10
    /\ p.successful_requests * m.den < m.num * p.total_requests

\* C26: remove_unhealthy(min_success_rate) removes exactly the proxies with
\* at least 10 recorded requests and a success rate below min_success_rate
\* (the others stay, in their order); a proxy with fewer than 10 recorded
\* requests stays whatever its success rate and health.
C26_RemovesExactly ==
    [][ppObs'.op = "remove_unhealthy" =>
         /\ proxies' = SelectSeq(proxies, LAMBDA p : ~Evicted(p, ppObs'.rate))
         /\ ppObs'.result =
               Cardinality({i \in DOMAIN proxies : Evicted(proxies[i], ppObs'.rate)})
         /\ \A i \in DOMAIN proxies :
               proxies[i].total_requests < 10
                  => \E j \in DOMAIN proxies' : proxies'[j] = proxies[i]]_vars

\* C26 witness: remove_unhealthy removed one proxy and kept an unhealthy
\* one that had failed on each of its few requests
C26_Witness ==
    /\ ppObs.op = "remove_unhealthy"
    /\ ppObs.result = 1
    /\ Len(proxies) = 1
    /\ proxies[1].total_requests \in 3..9
    /\ proxies[1].successful_requests = 0
    /\ ~proxies[1].is_healthy

\* C26, the edge of the rate: a proxy with 1 success in 10 requests stayed
\* under min_success_rate = 0.1
C26_WitnessAtRate ==
    /\ ppObs.op = "remove_unhealthy"
    /\ ppObs.result = 0
    /\ ppObs.rate = [num |-> 1, den |-> 10]
    /\ \E i \in DOMAIN proxies :
          /\ proxies[i].total_requests = 10
          /\ proxies[i].successful_requests = 1

\* C27: whenever the pool is not empty current_index is an index of the
\* proxy list, and get_proxy never ends in an IndexError.
C27_CursorValid ==
    /\ (proxies # <<>> => current_index \in 0..(Len(proxies) - 1))
    /\ ppObs.raised # "IndexError"

\* The step is a get_proxy call
GetProxyStep ==
    /\ ppObs'.op = "get_proxy"
    /\ proxies' = proxies
    /\ now' = now
    /\ <<ppObs, current_index>>' # <<ppObs, current_index>>

\* The first available proxy at or after the cursor position, wrapping
\* around; positions are 1-based, the cursor 0-based
FirstAvailableFrom(cursor) ==
    LET n == Len(proxies)
        d == CHOOSE d \in 0..(n - 1) :
                /\ is_available(proxies[((cursor + d) % n) + 1])
                /\ \A e \in 0..(d - 1) : ~is_available(proxies[((cursor + e) % n) + 1])
    IN ((cursor + d) % n) + 1

\* C38: with the round_robin policy get_proxy returns the first available
\* proxy at or after the cursor position, wrapping around and skipping the
\* unavailable ones, and leaves the cursor just behind the proxy returned;
\* so with all n proxies available the call returns the proxy at the
\* cursor and moves the cursor one on, and n consecutive calls return each
\* proxy once, in pool order.
C38_RoundRobin ==
    [][(GetProxyStep /\ rotation_strategy = "round_robin" /\ available # {})
          => /\ ppObs'.raised = ""
             /\ ppObs'.result = FirstAvailableFrom(current_index)
             /\ current_index' = ppObs'.result % Len(proxies)
             /\ (available = DOMAIN proxies
                   => /\ ppObs'.result = (current_index % Len(proxies)) + 1
                      /\ current_index' = (current_index + 1) % Len(proxies))]_vars

\* ------------------------------------------------------------------------
\* Properties of the checkpoint store
\* ------------------------------------------------------------------------

\* Two checkpoints equal in every field except last_updated
SameExceptUpdated(a, b) ==
    /\ a.scraper_name = b.scraper_name
    /\ a.checkpoint_type = b.checkpoint_type
    /\ a.value = b.value
    /\ a.total_items = b.total_items
    /\ a.scraped_items = b.scraped_items
    /\ a.metadata = b.metadata

\* load returns the checkpoint last saved for job j: equal to it in every
\* field but last_updated, which is a time at or after the one just before
\* the save
LoadsLastSaved(j) ==
    LET r == load_checkpoint(j) IN
    /\ r # <<>>
    /\ SameExceptUpdated(r[1], cpObs[j].prev[1])
    /\ r[1].last_updated.t = "datetime"
    /\ r[1].last_updated.n >= cpObs[j].pre

\* C9 as claimed: after save(job, cp) has returned, load(job) returns the
\* checkpoint equal to cp in every field except last_updated, which is at
\* or after the time just before the save.
C9_RoundTrip ==
    \A j \in Jobs : cpObs[j].cur = "saved" => LoadsLastSaved(j)

\* A value JSON has a form of its own for: str, int, None, a list of these,
\* a dict from str to these
NativeLeaf(v) == v.t \in {"str", "int", "NoneType"}
Native(v) ==
    \/ NativeLeaf(v)
    \/ v.t = "list" /\ \A i \in DOMAIN v.items : NativeLeaf(v.items[i])
    \/ /\ v.t = "dict"
       /\ \A i \in DOMAIN v.items :
             v.items[i].items[1].t = "str" /\ NativeLeaf(v.items[i].items[2])

\* C9 as amended: the round trip holds for a checkpoint whose value and
\* metadata are made of strings, integers, None, lists and dicts with
\* string keys.
C9_RoundTripNative ==
    \A j \in Jobs :
        (/\ cpObs[j].cur = "saved"
         /\ Native(cpObs[j].prev[1].value)
         /\ Native(cpObs[j].prev[1].metadata))
            => LoadsLastSaved(j)

\* C9 witness: a checkpoint with a list value and a dict of metadata was
\* saved after the clock had advanced, the process was started again, and
\* the load made then returned it
C9_Witness ==
    /\ cpObs["j1"].cur = "saved"
    /\ cpObs["j1"].prev[1].value.t = "list"
    /\ cpObs["j1"].prev[1].metadata.t = "dict"
    /\ cpObs["j1"].pre >= 2
    /\ cpLoaded.job = "j1"
    /\ cpLoaded.restarted
    /\ cpLoaded.result = load_checkpoint("j1")
    /\ cpLoaded.result # <<>>
    /\ cpLoaded.result[1].last_updated = cpObs["j1"].prev[1].last_updated

\* What load returns for the file a completed save of cp leaves
Stored(cp) ==
    from_dict([i \in 1..NumFields |->
                  PyItem(PyStr(Member(cp, i).s), json_loads(Member(cp, i).items[1]))])

\* C10: when the process died during save(job, new) and a saved checkpoint
\* of the job existed, load(job) returns the previous checkpoint or the new
\* one in full, never None and never a partial record.
C10_CrashAtomic ==
    \A j \in Jobs :
        (cpObs[j].cur = "crashed" /\ cpObs[j].prev # <<>> /\ FirstBad(cpObs[j].new[1]) = 0)
            => /\ load_checkpoint(j) # <<>>
               /\ \/ load_checkpoint(j) = Stored(cpObs[j].prev[1])
                  \/ load_checkpoint(j) = Stored(cpObs[j].new[1])

\* ------------------------------------------------------------------------
\* Two workers on the checkpoint of one job
\* ------------------------------------------------------------------------

\* The checkpoints the workers save: those of Samples that JSON keeps as
\* they are
ConcSamples(j) == {cp \in Samples(j) : Native(cp.value) /\ Native(cp.metadata)}

\* The arguments the workers give update_progress: a count alone, and a
\* count with a new value
ConcUpdates == {<<PyInt(1), PyNone>>, <<PyInt(2), PyStr("n")>>}

\* Workers run save_checkpoint and update_progress on the same job with no
\* order imposed on their file operations
NextCPConc ==
    \E w \in Workers :
        \/ \E cp \in ConcSamples("j1") : save_begin(w, "j1", cp)
        \/ save_write(w)
        \/ \E u \in ConcUpdates : update_progress(w, "j1", u[1], u[2])
        \/ update_progress_save(w)

SpecCPConc == InitCP /\ [][NextCPConc]_vars

\* C11: operations of concurrent workers on one job are serialized. While
\* one save runs over a stored checkpoint, a load returns the old or the new
\* checkpoint in full; and once every save and update_progress has
\* finished, the file holds in full the record written by the one that
\* finished last (no mix of two records, none of its fields lost).
C11_Serialized ==
    \A j \in Jobs :
        /\ (/\ cpObs[j].cur = "saving"
            /\ cpObs[j].prev # <<>>
            /\ FirstBad(cpObs[j].new[1]) = 0)
               => \/ load_checkpoint(j) = Stored(cpObs[j].prev[1])
                  \/ load_checkpoint(j) = Stored(cpObs[j].new[1])
        /\ (/\ Writers(j) = {}
            /\ cpObs[j].last # <<>>
            /\ FirstBad(cpObs[j].last[1]) = 0)
               => load_checkpoint(j) = Stored(cpObs[j].last[1])

\* ------------------------------------------------------------------------
\* Two jobs in one checkpoint directory
\* ------------------------------------------------------------------------

\* The checkpoints saved for a job: a page number, and for the first job
\* also a list with metadata
JobSamples(j) ==
    {cp \in ConcSamples(j) :
        cp.checkpoint_type \in (IF j = "j1" THEN {PyStr("page"), PyStr("offset")}
                                ELSE {PyStr("page")})}

\* The arguments given to update_progress for a job
JobUpdates(j) == IF j = "j1" THEN {<<PyInt(2), PyStr("n")>>} ELSE {}

\* Each job is run by a worker of its own
WorkerOf(j) == IF j = "j1" THEN "w1" ELSE "w2"

\* The operations on the checkpoint of job j
OpOn(j) ==
    \/ \E cp \in JobSamples(j) : save_begin(WorkerOf(j), j, cp)
    \/ save_write(WorkerOf(j))
    \/ \E u \in JobUpdates(j) : update_progress(WorkerOf(j), j, u[1], u[2])
    \/ update_progress_save(WorkerOf(j))
    \/ delete_checkpoint(j)

\* The jobs save, update, load and delete their checkpoints with no order
\* imposed between the file operations of one job and those of the other
NextCPJobs ==
    \E j \in Jobs :
        \/ \E cp \in JobSamples(j) : save_begin(WorkerOf(j), j, cp)
        \/ save_write(WorkerOf(j))
        \/ \E u \in JobUpdates(j) : update_progress(WorkerOf(j), j, u[1], u[2])
        \/ update_progress_save(WorkerOf(j))
        \/ delete_checkpoint(j)
        \/ load(j)

SpecCPJobs == InitCP /\ [][NextCPJobs]_vars

\* The file of job j
FileOf(j) == files[generate_checkpoint_id(j)]

CooldownOver(p) == p.cooldown_until = None \/ now >= p.cooldown_until

\* C12 as claimed: a proxy that has had 3 consecutive recorded failures is
\* unavailable until its cooldown elapses or a successful health probe
\* resets it, whichever comes first, and is available from then on: while no
\* probe has reset it, it is available exactly when its cooldown is over.
C12_UnavailableUntilCooldownOrProbe ==
    \A i \in DOMAIN proxies :
        ppObs.down[i] => (is_available(proxies[i]) <=> CooldownOver(proxies[i]))

\* C12 as amended: a proxy that has had 3 consecutive recorded failures is
\* unavailable, and never returned by get_proxy, until a successful health
\* probe or reset_health resets it, whether or not its cooldown has elapsed;
\* right after that reset it is available.
C12_UnavailableUntilProbe ==
    [][\A i \in DOMAIN proxies :
          /\ (ppObs'.down[i]
                => /\ ~is_available(proxies[i])'
                   /\ ~(ppObs'.op = "get_proxy" /\ ppObs'.result = i))
          /\ ((ppObs.down[i] /\ ~ppObs'.down[i])
                => is_available(proxies[i])')]_vars

\* C12 witness: proxy 1 failed 3 times in a row, its cooldown has elapsed,
\* and a get_proxy made then returned the other proxy
C12_Witness ==
    /\ ppObs.down[1]
    /\ proxies[1].failed_requests = 3
    /\ proxies[1].cooldown_until # None
    /\ now >= proxies[1].cooldown_until
    /\ ppObs.op = "get_proxy"
    /\ ppObs.at = now
    /\ ppObs.result = 2

\* C13: an unhealthy proxy becomes healthy only in a successful health probe
\* of it or a reset_health on it (not by record_success, record_failure,
\* get_proxy or the clock), and a successful probe of an unhealthy proxy
\* leaves it healthy.
C13_HealthyOnlyByProbeOrReset ==
    [][\A i \in DOMAIN proxies :
          /\ ((~proxies[i].is_healthy /\ proxies'[i].is_healthy)
                => /\ ppObs'.op \in {"check_proxy_ok", "reset_health"}
                   /\ ppObs'.arg = i)
          /\ ((/\ ~proxies[i].is_healthy
               /\ proxies' # proxies
               /\ ppObs'.op = "check_proxy_ok"
               /\ ppObs'.arg = i)
                => proxies'[i].is_healthy)]_vars

\* C13 witness: a successful probe has just been made of proxy 1, which was
\* unhealthy after 3 failures, and is healthy now
C13_Witness ==
    /\ ppObs.op = "check_proxy_ok"
    /\ ppObs.arg = 1
    /\ ~ppObs.was
    /\ proxies[1].is_healthy
    /\ proxies[1].failed_requests = 3
    /\ proxies[1].successful_requests = 1

C14_WitnessNone ==
    /\ ppObs.op = "get_proxy"
    /\ ppObs.at = now
    /\ ppObs.result = 0
    /\ ~proxies[1].is_healthy
    /\ proxies[2].is_healthy

\* Proxy i is healthy and waits for its cooldown, which the step does not
\* see elapse
StillCooling(i) ==
    /\ proxies[i].is_healthy
    /\ proxies[i].cooldown_until # None
    /\ now' < proxies[i].cooldown_until

\* The step is a recorded failure of proxy i: a failed request or a failed
\* health probe
FailureOf(i) ==
    /\ ppObs'.op \in {"record_failure", "check_proxy_fails"}
    /\ ppObs'.arg = i
    /\ proxies'[i].failed_requests = proxies[i].failed_requests + 1

\* The cooldown the failure recorded by the step asks for
CooldownOf(op) == IF op = "check_proxy_fails" THEN ProbeCooldown ELSE DefaultCooldown

\* C31 as claimed: a failure recorded on a proxy puts it in cooldown for 60 s
\* (300 s from a health probe) and makes it unavailable; a healthy proxy in
\* cooldown stays unavailable whatever happens before the cooldown has
\* elapsed, a recorded success included; and a proxy that has not had 3
\* consecutive failures is available once its cooldown has elapsed.
C31_UnavailableForCooldown ==
    [][\A i \in DOMAIN proxies :
          /\ (FailureOf(i)
                => /\ proxies'[i].cooldown_until = now + CooldownOf(ppObs'.op)
                   /\ ~is_available(proxies[i])')
          /\ (StillCooling(i) => ~is_available(proxies[i])')
          /\ ((~ppObs'.down[i] /\ CooldownOver(proxies[i])')
                => is_available(proxies[i])')]_vars

\* C31 as amended: as above, except that a reset_health on the proxy ends
\* its cooldown at once; in every other step without a failure of it the
\* cooldown is left as the last failure set it, so a recorded success
\* neither shortens nor ends it.
C31_UnavailableUnlessReset ==
    [][\A i \in DOMAIN proxies :
          /\ (FailureOf(i)
                => /\ proxies'[i].cooldown_until = now + CooldownOf(ppObs'.op)
                   /\ ~is_available(proxies[i])')
          /\ ((StillCooling(i) /\ ~(ppObs'.op = "reset_health" /\ ppObs'.arg = i))
                => /\ ~is_available(proxies[i])'
                   /\ (~FailureOf(i)
                         => proxies'[i].cooldown_until = proxies[i].cooldown_until))
          /\ ((StillCooling(i) /\ ppObs'.op = "reset_health" /\ ppObs'.arg = i)
                => is_available(proxies[i])')
          /\ ((~ppObs'.down[i] /\ CooldownOver(proxies[i])')
                => is_available(proxies[i])')]_vars

\* C31 witness: one failed health probe of proxy 1, then a success recorded
\* on it within the 300 s of the cooldown, which leaves it unavailable
C31_Witness ==
    /\ ppObs.op = "record_success"
    /\ ppObs.arg = 1
    /\ proxies[1].failed_requests = 1
    /\ proxies[1].successful_requests = 1
    /\ proxies[1].cooldown_until = 1 + ProbeCooldown
    /\ now > 1 + DefaultCooldown
    /\ now < proxies[1].cooldown_until
    /\ ~is_available(proxies[1])

\* C31 witness, elapsed: the same proxy once the 300 s have passed: get_proxy
\* returns it
C31_WitnessElapsed ==
    /\ ppObs.op = "get_proxy"
    /\ ppObs.at = now
    /\ ppObs.result = 1
    /\ proxies[1].failed_requests = 1
    /\ proxies[1].successful_requests = 1
    /\ proxies[1].cooldown_until = 1 + ProbeCooldown
    /\ now >= proxies[1].cooldown_until

\* ------------------------------------------------------------------------
\* Properties of the multi-level limiter
\* ------------------------------------------------------------------------

\* C39: MultiLevelRateLimiter.acquire returns only after the per-second
\* token bucket, the per-minute window and the per-hour window have admitted
\* the operation, in that order: the limiters that have admitted a call are
\* always the first ones of that order, a call that sleeps in one of them
\* has been admitted by exactly those before it and has not returned, and a
\* call returns in the step in which the per-hour window records it.
C39_AllThreeInOrder ==
    /\ [](\A c \in Callers :
            /\ mlObs.passed[c] = SubSeq(Stages, 1, Len(mlObs.passed[c]))
            /\ (mlObs.returned[c] # 0 => mlObs.passed[c] = Stages)
            /\ (mlPc[c] # 0
                  => /\ mlObs.returned[c] = 0
                     /\ Len(mlObs.passed[c]) = mlPc[c] - 1))
    /\ [][\A c \in Callers :
             ((ml_acquire(c) \/ ml_acquire_wakes(c)) /\ mlPc'[c] = 0)
                => /\ mlObs'.returned[c] = now
                   /\ levels'.hour_limiter.requests # <<>>
                   /\ levels'.hour_limiter.requests[Len(levels'.hour_limiter.requests)] = now]_vars

\* C39 witness: a call that slept in the token bucket, in the per-minute
\* window and in the per-hour window, and returned after the hour
C39_Witness ==
    \E c \in Callers :
        /\ mlObs.returned[c] >= HourWindow
        /\ mlObs.sleeps[c] = 3
        /\ mlObs.passed[c] = Stages

RateOver80 == 10 * Len(tracker.errors) > 8 * tracker.window_size

\* At least 5 errors of the window are critical
ManyCritical ==
    \E S \in SUBSET DOMAIN tracker.errors :
        /\ Cardinality(S) = 5
        /\ \A i \in S : tracker.errors[i].severity = "critical"

\* The 3 most recent errors are all Cloudflare errors
LastThreeCloudflare ==
    /\ Len(tracker.errors) >= 3
    /\ \A i \in (Len(tracker.errors) - 2)..Len(tracker.errors) :
          tracker.errors[i].error_type = "cloudflare"

\* C37: should_pause_scraping is true exactly when the error rate exceeds
\* 80%, or at least 5 errors in the window are critical, or the 3 most
\* recent errors are all Cloudflare errors; it is false while at most
\* 0.8 x W errors have been added since the last reset and neither of the
\* other two conditions holds; and the window never holds more than W
\* errors.
C37_PausesExactly ==
    /\ Len(tracker.errors) <= tracker.window_size
    /\ etObs.op = "should_pause_scraping"
          => /\ etObs.result <=> (RateOver80 \/ ManyCritical \/ LastThreeCloudflare)
             /\ (/\ 10 * etObs.recorded <= 8 * tracker.window_size
                 /\ ~ManyCritical
                 /\ ~LastThreeCloudflare)
                   => ~etObs.result

\* C37 witness: 5 critical errors in a window of 7, none of them a
\* Cloudflare error: should_pause_scraping returned true at an error rate of
\* 5/7
C37_Witness ==
    /\ etObs.op = "should_pause_scraping"
    /\ etObs.result
    /\ tracker.window_size = 7
    /\ etObs.recorded = 5
    /\ ManyCritical
    /\ ~LastThreeCloudflare

\* C37 witness, rate: 4 network errors in a window of 5, an error rate of
\* exactly 80%: should_pause_scraping returned false
C37_WitnessAtRate ==
    /\ etObs.op = "should_pause_scraping"
    /\ ~etObs.result
    /\ tracker.window_size = 5
    /\ etObs.recorded = 4
    /\ Len(tracker.errors) = 4

\* C37 witness, full window: a window of 3 that has had 5 errors added and
\* holds the last 3
C37_WitnessFull ==
    /\ tracker.window_size = 3
    /\ etObs.recorded = 5
    /\ Len(tracker.errors) = 3
    /\ etObs.op = "should_pause_scraping"
    /\ etObs.result

\* ------------------------------------------------------------------------
\* Properties of the retry loop and the strategies
\* ------------------------------------------------------------------------

Finished == rtPc \in {"returned", "raised"}

\* An HTTP failure with a 4xx status other than 429
ClientFailure(e) ==
    /\ e.has_response
    /\ e.status_code # None
    /\ 400 <= e.status_code /\ e.status_code < 500
    /\ e.status_code # 429

\* C15 as claimed: with any strategy of max_attempts M, when func fails k < M
\* times and then succeeds, retry_with_strategy returns after exactly k+1
\* invocations with RetryContext.attempt = k+1.
C15_ReturnsAfterKPlusOne ==
    (Finished /\ func < strategy.max_attempts)
        => /\ rtPc = "returned"
           /\ rtObs.invocations = func + 1
           /\ context.attempt = func + 1

\* C15 as amended: the same, for the exponential and Fibonacci strategies,
\* and for the adaptive strategy when none of the failures is an HTTP 4xx
\* other than 429 (which the adaptive strategy does not retry).
C15_ReturnsAfterKPlusOneRetried ==
    (/\ Finished
     /\ func < strategy.max_attempts
     /\ (strategy.kind = "adaptive" => ~ClientFailure(context.last_exception)))
        => /\ rtPc = "returned"
           /\ rtObs.invocations = func + 1
           /\ context.attempt = func + 1

\* C15 witness: under max_attempts = 3 func failed twice, the second time
\* with a 500 under the adaptive strategy, and the third invocation returned
C15_Witness ==
    /\ rtPc = "returned"
    /\ strategy.kind = "adaptive"
    /\ strategy.max_attempts = 3
    /\ func = 2
    /\ context.attempt = 3
    /\ context.last_exception.status_code = 500
    /\ rtObs.invocations = 3

\* What C16 says of a finished call on a func that fails in each of its
\* first M invocations, M >= 1: it raised the last failure of func, it slept
\* after every invocation but the last, and (when `exactly`) it made M
\* invocations
Exhausted(exactly) ==
    (Finished /\ strategy.max_attempts >= 1 /\ func >= strategy.max_attempts)
        => /\ rtPc = "raised"
           /\ rtObs.raised = context.last_exception
           /\ rtObs.sleeps = rtObs.invocations - 1
           /\ rtObs.invocations <= strategy.max_attempts
           /\ (exactly => rtObs.invocations = strategy.max_attempts)

\* C16 as claimed: under every built-in strategy with max_attempts = M >= 1,
\* retry_with_strategy on a func that always fails terminates after exactly
\* M invocations, with no wait after the last, and raises func's last failure.
C16_ExhaustsAfterMaxAttempts ==
    /\ [] Exhausted(TRUE)
    /\ <> Finished

\* C16 as amended: retry_with_strategy terminates; on a func that always
\* fails, with M >= 1, it makes at most M invocations, does not wait after
\* the last one and raises func's last failure; the invocations are exactly
\* M under the exponential and Fibonacci strategies, and under the adaptive
\* strategy when the last failure is not an HTTP 4xx other than 429.
C16_ExhaustsUnlessRefused ==
    /\ [] Exhausted(strategy.kind = "adaptive" => ~ClientFailure(context.last_exception))
    /\ <> Finished

\* C16 witness: under the exponential strategy with max_attempts = 3 func
\* failed 3 times; the call slept twice and raised the third failure
C16_Witness ==
    /\ rtPc = "raised"
    /\ strategy.kind = "exponential"
    /\ strategy.max_attempts = 3
    /\ func >= 3
    /\ rtObs.invocations = 3
    /\ rtObs.sleeps = 2
    /\ rtObs.raised = context.last_exception
    /\ rtObs.raised # NoException

Min2(x, y) == IF x < y THEN x ELSE y

C17_WitnessCapped ==
    /\ rtPc = "sleeping"
    /\ strategy.kind = "exponential"
    /\ ~strategy.jitter
    /\ strategy.multiplier = 2
    /\ strategy.max_delay = 1
    /\ context.attempt = 3
    /\ rtObs.wait = Wait(1, 1)

\* The failure carries a Retry-After header that float() reads as a number
NumericRetryAfter(e) ==
    e.has_response /\ e.retry_after.present /\ e.retry_after.numeric

\* A wait is at most max_delay
WithinMaxDelay(w, max_delay) == w.num <= max_delay * w.den

\* C34 as claimed: AdaptiveRetryStrategy.get_wait_time returns the failure's
\* Retry-After value as it is (above max_delay too, no jitter) whenever the
\* failure carries a numeric one, and a wait of at most max_delay in every
\* other case.
C34_RetryAfterOrCapped ==
    (rtPc = "asked" /\ strategy.kind = "adaptive")
        => IF NumericRetryAfter(context.last_exception)
           THEN rtObs.wait = Wait(context.last_exception.retry_after.n, 1)
           ELSE WithinMaxDelay(rtObs.wait, strategy.max_delay)

\* C34 as amended: the Retry-After value as it is whenever the failure
\* carries a numeric one; base_delay as it is, above max_delay too, when the
\* context holds no failure; a wait of at most max_delay in every other
\* case.
C34_RetryAfterBaseOrCapped ==
    (rtPc = "asked" /\ strategy.kind = "adaptive")
        => IF NumericRetryAfter(context.last_exception)
           THEN rtObs.wait = Wait(context.last_exception.retry_after.n, 1)
           ELSE IF context.last_exception = NoException
           THEN rtObs.wait = Wait(strategy.base_delay, 1)
           ELSE WithinMaxDelay(rtObs.wait, strategy.max_delay)

\* C34 witness: a 429 with Retry-After: 5 under max_delay 1: the wait is 5
C34_Witness ==
    /\ rtPc = "asked"
    /\ strategy.kind = "adaptive"
    /\ strategy.max_delay = 1
    /\ context.last_exception = HttpError(429, NumHeader(5), FALSE)
    /\ rtObs.wait = Wait(5, 1)

\* C34 witness, cap: a connection error at the third attempt under
\* max_delay 1, where delay and jitter exceed it: the wait is 1
C34_WitnessCapped ==
    /\ rtPc = "asked"
    /\ strategy.kind = "adaptive"
    /\ strategy.max_delay = 1
    /\ context.last_exception = Exc("ConnectionError")
    /\ context.attempt = 3
    /\ rtObs.wait = Wait(1, 1)

\* The Fibonacci sequence 1, 1, 2, 3, 5, 8, 13, ... for n = 1, 2, 3, ...
RECURSIVE Fib(_)
Fib(n) == IF n <= 2 THEN 1 ELSE Fib(n - 1) + Fib(n - 2)

\* C35: FibonacciBackoffStrategy.get_wait_time for attempt a is
\* min(max_delay, base_delay * F(a)) with F = 1, 1, 2, 3, 5, 8, 13, ... for
\* attempts 1, 2, 3, 4, 5, 6, 7, ...
C35_FibonacciWait ==
    (rtPc = "asked" /\ strategy.kind = "fibonacci")
        => rtObs.wait =
              Wait(Min2(strategy.max_delay, strategy.base_delay * Fib(context.attempt)), 1)

\* C18: AdaptiveRetryStrategy.should_retry is never true for a failure the
\* classifier gives a non-retryable category (authentication, authorization,
\* not_found, client_error, parsing, unknown), and is true for a 429 failure
\* whenever attempt < max_attempts.
C18_AdaptiveFollowsClassifier ==
    (strategy.kind = "adaptive" /\ rtPc \in {"sleeping", "raised"})
        => /\ (/\ classify(context.last_exception).error_type \in
                    {"authentication", "authorization", "not_found",
                     "client_error", "parsing", "unknown"}
               /\ ~classify(context.last_exception).should_retry)
                 => ~rtObs.retried
           /\ (/\ context.last_exception.has_response
               /\ context.last_exception.status_code = 429
               /\ context.attempt < strategy.max_attempts)
                 => rtObs.retried

\* ------------------------------------------------------------------------
\* Properties of the error classifier
\* ------------------------------------------------------------------------

\* C19: a 429 response is classified rate_limit and retryable with suggested
\* delay the number in its Retry-After header when the header holds one
\* (5 gives 5) and 60 when there is no header; a 404 response is classified
\* not retryable.
C19_RateLimitDelay ==
    /\ (ecException.has_response /\ ecException.status_code = 429)
          => /\ ecClassification.error_type = "rate_limit"
             /\ ecClassification.should_retry
             /\ (ecException.retry_after.present /\ ecException.retry_after.numeric)
                   => ecClassification.retry_after = ecException.retry_after.n
             /\ ~ecException.retry_after.present
                   => ecClassification.retry_after = 60
    /\ (ecException.has_response /\ ecException.status_code = 404)
          => ~ecClassification.should_retry

C20_RetryableByCategory ==
    ecClassification # NoClassification
        => /\ ecClassification.error_type \in
                 {"network", "timeout", "rate_limit", "server_error"}
                 => ecClassification.should_retry
           /\ ecClassification.error_type \in
                 {"authentication", "authorization", "not_found", "client_error",
                  "parsing", "unknown"}
                 => ~ecClassification.should_retry
           /\ ecClassification.error_type = "unknown"
                 => /\ ecClassification.severity = "high"
                    /\ ecClassification.requires_alert

====
